---- MODULE Spec2Model ----
(***************************************************************************)
(* Model of src/app.py: the schema-version classifier, the monthly         *)
(* high/low resolvers, the integrity max-points selection and the report   *)
(* compiler generate_interactive_html.                                     *)
(*                                                                         *)
(* A JSON value is a tagged record: [t |-> "null"], [t |-> "num", v |-> n],*)
(* [t |-> "str", v |-> s], [t |-> "list", v |-> <<...>>] and, for an        *)
(* object, [t |-> "dict", v |-> <<k1, v1>>, <<k2, v2>>, ...] with the keys  *)
(* in document order (a Python dict keeps insertion order).  A Python call *)
(* either returns a value, Ok(v), or raises, Raise(e).                     *)
(***************************************************************************)
EXTENDS Integers, Sequences, FiniteSets, TLC

VARIABLES
    input,    \* the document as json.loads returned it
    data,     \* the same in-memory document now (the compiler writes to it)
    version,  \* result of the last module-level detect_schema_version(data)
    out,      \* result of the last generate_interactive_html(data)
    prev,     \* result of the generate_interactive_html(data) before the last
    runs,     \* number of generate_interactive_html calls made on data
    uploaded_files,   \* what st.file_uploader returned: files with name and text
    session_payload,  \* st.session_state['analysis_outputs']
    use_session,      \* the payload is there and its checkbox is ticked
    parsed,           \* the (name, document) pairs loaded so far
    errors,           \* the error lines recorded so far
    stage,            \* the place the script run has reached
    listed,           \* the lines written under 'Files loaded'
    preview,          \* the quick preview of a single document
    downloads,        \* the download buttons rendered, as (file name, content)
    html_files,       \* the HTML entries collected for the archive
    json_files,       \* the JSON entries collected for the archive
    active_tabs,      \* the tab-content sections of the open report carrying 'active'
    active_navs,      \* the nav-tab buttons of the open report carrying 'active'
    last_tab          \* the name given to the last showTab call, "" before any

compiler_vars == <<input, data, version, out, prev, runs>>

script_vars == <<uploaded_files, session_payload, use_session, parsed, errors,
                 stage, listed, preview, downloads, html_files, json_files>>

page_vars == <<active_tabs, active_navs, last_tab>>

vars == <<input, data, version, out, prev, runs,
          uploaded_files, session_payload, use_session, parsed, errors,
          stage, listed, preview, downloads, html_files, json_files,
          active_tabs, active_navs, last_tab>>

----------------------------------------------------------------------------
(* Bounds of the model *)

MaxRuns == 2
MaxSources == 3
MaxChecks == 2
MaxTxns == 11
MaxAbsent == 2
MaxParties == 3
MaxFiles == 3

----------------------------------------------------------------------------
(* JSON values and the Python operations the code applies to them *)

Null == [t |-> "null"]
Num(n) == [t |-> "num", v |-> n]
Str(s) == [t |-> "str", v |-> s]
List(xs) == [t |-> "list", v |-> xs]
Dict(ps) == [t |-> "dict", v |-> ps]
EmptyDict == Dict(<< >>)
EmptyList == List(<< >>)

Ok(x) == [ok |-> TRUE, val |-> x]
Raise(e) == [ok |-> FALSE, exc |-> e]

IsDict(x) == x.t = "dict"
IsList(x) == x.t = "list"
IsStr(x) == x.t = "str"
IsNum(x) == x.t = "num"

\* bool(x)
Truthy(x) ==
    CASE x.t = "null" -> FALSE
      [] x.t = "num" -> x.v # 0
      [] x.t = "str" -> x.v # ""
      [] OTHER -> Len(x.v) > 0

\* k in o, for a dict o
HasKey(o, k) == \E i \in 1..Len(o.v) : o.v[i][1] = k

\* o.get(k, dflt), for a dict o
Get(o, k, dflt) ==
    IF HasKey(o, k)
    THEN o.v[CHOOSE i \in 1..Len(o.v) : o.v[i][1] = k][2]
    ELSE dflt

\* o[k] = val, for a dict o: an existing key keeps its place
SetKey(o, k, val) ==
    IF HasKey(o, k)
    THEN Dict([i \in 1..Len(o.v) |-> IF o.v[i][1] = k THEN <<k, val>> ELSE o.v[i]])
    ELSE Dict(Append(o.v, <<k, val>>))

\* s.startswith(p)
StartsWith(s, p) == Len(s) >= Len(p) /\ SubSeq(s, 1, Len(p)) = p

\* p in s, for strings
Contains(s, p) ==
    \E i \in 1..(Len(s) - Len(p) + 1) : SubSeq(s, i, i + Len(p) - 1) = p

\* x[0]
Index0(x) ==
    CASE x.t = "list" -> IF Len(x.v) > 0 THEN Ok(x.v[1]) ELSE Raise("IndexError")
      [] x.t = "str" -> IF Len(x.v) > 0 THEN Ok(Str(SubSeq(x.v, 1, 1))) ELSE Raise("IndexError")
      [] x.t = "dict" -> Raise("KeyError")
      [] OTHER -> Raise("TypeError")

\* k in x, for a string k
InValue(k, x) ==
    CASE x.t = "dict" -> Ok(HasKey(x, k))
      [] x.t = "list" -> Ok(\E i \in 1..Len(x.v) : x.v[i] = Str(k))
      [] x.t = "str" -> Ok(Contains(x.v, k))
      [] OTHER -> Raise("TypeError")

Digits == {"0", "1", "2", "3", "4", "5", "6", "7", "8", "9"}

\* the number written by a text of digits
RECURSIVE ToNat(_)
ToNat(s) ==
    IF s = "" THEN 0
    ELSE 10 * ToNat(SubSeq(s, 1, Len(s) - 1))
         + (CHOOSE k \in 0..9 : ToString(k) = SubSeq(s, Len(s), Len(s)))

----------------------------------------------------------------------------
(* detect_schema_version, get_monthly_high/low, get_integrity_max_points *)

CURRENT == "5.0"
LEGACY == "4.0"

\* lines 28-33: the structural probe of the first account
detect_by_accounts(d) ==
    LET accounts == Get(d, "accounts", EmptyList) IN
    IF ~Truthy(accounts) THEN Ok(LEGACY)
    ELSE LET a0 == Index0(accounts) IN
         IF ~a0.ok THEN a0
         ELSE IF ~IsDict(a0.val) THEN Raise("AttributeError")
         ELSE LET monthly == Get(a0.val, "monthly_summary", EmptyList) IN
              IF ~Truthy(monthly) THEN Ok(LEGACY)
              ELSE LET m0 == Index0(monthly) IN
                   IF ~m0.ok THEN m0
                   ELSE LET has == InValue("highest_intraday", m0.val) IN
                        IF ~has.ok THEN has
                        ELSE IF has.val THEN Ok(CURRENT) ELSE Ok(LEGACY)

\* variant: a declared version string of another family is trusted before
\* the structural signals are looked at
detect_schema_version_declared_first(d) ==
    IF ~IsDict(d) THEN Raise("AttributeError")
    ELSE
    LET ri == Get(d, "report_info", EmptyDict) IN
    IF ~IsDict(ri) THEN Raise("AttributeError")
    ELSE LET sv == Get(ri, "schema_version", Str("")) IN
         IF ~IsStr(sv) THEN Raise("AttributeError")
         ELSE IF StartsWith(sv.v, "5.") THEN Ok(CURRENT)
         ELSE IF sv.v # "" THEN Ok(LEGACY)
         ELSE IF Truthy(Get(d, "recurring_payments", Null))
                   \/ Truthy(Get(d, "non_bank_financing", Null))
              THEN Ok(CURRENT)
         ELSE detect_by_accounts(d)

detect_schema_version(d) ==
    IF ~IsDict(d) THEN Raise("AttributeError")
    ELSE
    LET ri == Get(d, "report_info", EmptyDict) IN
    IF ~IsDict(ri) THEN Raise("AttributeError")
    ELSE LET sv == Get(ri, "schema_version", Str("")) IN
         IF ~IsStr(sv) THEN Raise("AttributeError")
         ELSE IF StartsWith(sv.v, "5.") THEN Ok(CURRENT)
         ELSE IF Truthy(Get(d, "recurring_payments", Null))
                   \/ Truthy(Get(d, "non_bank_financing", Null))
              THEN Ok(CURRENT)
         ELSE detect_by_accounts(d)

\* variant: the legacy name is preferred whatever the version
get_monthly_high_legacy_first(m, schema_version) ==
    Get(m, "highest", Get(m, "highest_intraday", Num(0)))

get_monthly_high(m, schema_version) ==
    IF schema_version = CURRENT
    THEN Get(m, "highest_intraday", Get(m, "highest", Num(0)))
    ELSE Get(m, "highest", Get(m, "highest_intraday", Num(0)))

\* variant: version-exclusive lookup, without the fallback to the other name
get_monthly_low_exclusive(m, schema_version) ==
    IF schema_version = CURRENT
    THEN Get(m, "lowest_intraday", Num(0))
    ELSE Get(m, "lowest", Num(0))

get_monthly_low(m, schema_version) ==
    IF schema_version = CURRENT
    THEN Get(m, "lowest_intraday", Get(m, "lowest", Num(0)))
    ELSE Get(m, "lowest", Get(m, "lowest_intraday", Num(0)))

\* variant: the 25-point maximum whatever the version
get_integrity_max_points_legacy_only(schema_version) == 25

get_integrity_max_points(schema_version) ==
    IF schema_version = CURRENT THEN 23 ELSE 25

----------------------------------------------------------------------------
(* generate_interactive_html: the parts of the compiler, in source order *)

\* for e in x
Iter(x) ==
    CASE x.t = "list" -> Ok(x.v)
      [] x.t = "dict" -> Ok([i \in 1..Len(x.v) |-> Str(x.v[i][1])])
      [] x.t = "str" -> Ok([i \in 1..Len(x.v) |-> Str(SubSeq(x.v, i, i))])
      [] OTHER -> Raise("TypeError")

\* xs[:n]
Take(xs, n) == SubSeq(xs, 1, IF Len(xs) < n THEN Len(xs) ELSE n)

\* a or b
PyOr(a, b) == IF Truthy(a) THEN a ELSE b

\* sep.join(xs), for a sequence of strings
RECURSIVE Join(_, _)
Join(xs, sep) ==
    IF xs = << >> THEN ""
    ELSE IF Len(xs) = 1 THEN xs[1]
    ELSE xs[1] \o sep \o Join(Tail(xs), sep)

\* repr(x) (the strings of the documents modelled hold no quote or backslash
\* where a repr is taken)
RECURSIVE PyRepr(_)
PyRepr(x) ==
    CASE x.t = "null" -> "None"
      [] x.t = "num" -> ToString(x.v)
      [] x.t = "str" -> "'" \o x.v \o "'"
      [] x.t = "list" ->
           "[" \o Join([i \in 1..Len(x.v) |-> PyRepr(x.v[i])], ", ") \o "]"
      [] x.t = "dict" ->
           "{" \o Join([i \in 1..Len(x.v) |->
                          "'" \o x.v[i][1] \o "': " \o PyRepr(x.v[i][2])], ", ") \o "}"

\* str(x), as an f-string field renders it
PyStr(x) == IF x.t = "str" THEN x.v ELSE PyRepr(x)

AllDicts(xs) == \A i \in 1..Len(xs) : IsDict(xs[i])

\* every named field of o, when present, is a number (it is formatted as one)
NumFields(o, keys) == \A k \in keys : IsNum(Get(o, k, Num(0)))

\* variant: a transaction without a type is taken as a debit
convert_item_debit_default(t) ==
    Dict(<< <<"date", Get(t, "date", Str(""))>>,
            <<"description", Get(t, "description", Str(""))>>,
            <<"type", Get(t, "type", Str("DEBIT"))>>,
            <<"amount", Get(t, "amount", Num(0))>>,
            <<"account", Get(t, "account", Str(""))>>,
            <<"counterparty", Get(t, "counterparty", Str(""))>>,
            <<"flag_reason", Get(t, "flag_reason", Str(""))>> >>)

\* lines 76-84
convert_item(t) ==
    Dict(<< <<"date", Get(t, "date", Str(""))>>,
            <<"description", Get(t, "description", Str(""))>>,
            <<"type", Get(t, "type", Str("CREDIT"))>>,
            <<"amount", Get(t, "amount", Num(0))>>,
            <<"account", Get(t, "account", Str(""))>>,
            <<"counterparty", Get(t, "counterparty", Str(""))>>,
            <<"flag_reason", Get(t, "flag_reason", Str(""))>> >>)

RECURSIVE convert_items(_)
convert_items(items) ==
    IF items = << >> THEN << >>
    ELSE (IF IsDict(Head(items)) THEN <<convert_item(Head(items))>> ELSE << >>)
         \o convert_items(Tail(items))

\* lines 62-91: the resolved flags object, and the document after the
\* assignment flags['round_figure_transactions'] = ... (flags is the object
\* held by the document whenever the document has a dict under 'flags')
fold_flagged_for_review(d) ==
    LET flags0 == Get(d, "flags", EmptyDict)
        ffr == Get(d, "flagged_for_review", EmptyDict)
    IN  IF ~(IsDict(ffr) /\ Truthy(ffr)) THEN [flags |-> flags0, data |-> d]
        ELSE LET flags1 == IF IsDict(flags0) THEN flags0 ELSE EmptyDict IN
             IF Truthy(Get(flags1, "round_figure_transactions", Null))
             THEN [flags |-> flags1, data |-> d]
             ELSE LET items0 == PyOr(PyOr(Get(ffr, "all_items", Null),
                                          Get(ffr, "top_10_items", Null)),
                                     EmptyList)
                      items == IF IsList(items0) THEN items0.v ELSE << >>
                      converted == convert_items(items)
                      rft == Dict(<< <<"count", Get(ffr, "count", Num(Len(converted)))>>,
                                     <<"total_amount", Get(ffr, "total_amount", Num(0))>>,
                                     <<"all_transactions", List(converted)>>,
                                     <<"top_10_transactions", List(Take(converted, 10))>>,
                                     <<"note", Get(ffr, "note", Str(""))>> >>)
                      flags2 == SetKey(flags1, "round_figure_transactions", rft)
                  IN  [flags |-> flags2,
                       data |-> IF HasKey(d, "flags") /\ IsDict(flags0)
                                THEN SetKey(d, "flags", flags2) ELSE d]

\* variant: the generic key is looked at first
resolve_round_txns_generic_first(round_fig) ==
    Get(round_fig, "transactions",
        Get(round_fig, "all_transactions",
            Get(round_fig, "top_10_transactions", EmptyList)))

\* line 270
resolve_round_txns(round_fig) ==
    Get(round_fig, "all_transactions",
        Get(round_fig, "top_10_transactions",
            Get(round_fig, "transactions", EmptyList)))

\* variant: the note is also shown when the list is complete
round_note_inclusive(n, round_count) ==
    IF n <= round_count
    THEN "Showing " \o ToString(n) \o " of " \o ToString(round_count) \o " transactions"
    ELSE ""

\* lines 279-281
round_note(n, round_count) ==
    IF n < round_count
    THEN "Showing " \o ToString(n) \o " of " \o ToString(round_count) \o " transactions"
    ELSE ""

\* lines 271-277: the entry embedded for one transaction
round_js_entry(t) ==
    Dict(<< <<"date", Get(t, "date", Str(""))>>,
            <<"desc", Get(t, "description", Str(""))>>,
            <<"type", Get(t, "type", Str("CREDIT"))>>,
            <<"amount", Get(t, "amount", Num(0))>>,
            <<"account", Get(t, "account", Str(""))>> >>)

\* lines 119-120 and 268-281
round_figure(flags) ==
    IF ~IsDict(flags) THEN Raise("AttributeError")
    ELSE LET round_fig == Get(flags, "round_figure_transactions", EmptyDict) IN
         IF ~IsDict(round_fig) THEN Raise("AttributeError")
         ELSE LET round_count == Get(round_fig, "count", Num(0))
                  round_txns == Iter(resolve_round_txns(round_fig))
              IN  IF ~round_txns.ok THEN round_txns
                  ELSE IF ~AllDicts(round_txns.val) THEN Raise("AttributeError")
                  ELSE IF ~IsNum(round_count) THEN Raise("TypeError")
                  ELSE Ok([round_fig |-> round_fig,
                           round_count |-> round_count.v,
                           round_js |-> [i \in 1..Len(round_txns.val) |->
                                            round_js_entry(round_txns.val[i])],
                           round_note |-> round_note(Len(round_txns.val), round_count.v)])

\* lines 134-152: an account card formats these fields as numbers
account_card_ok(a) ==
    IsDict(a) /\ NumFields(a, {"total_credits", "total_debits",
                               "transaction_count", "closing_balance"})

\* lines 134-152: the exception of an account whose card cannot be rendered:
\* a.get on what is no dict, the comparison of the closing balance (138),
\* then the first field formatted as a number that is none (147-149)
account_card_error(a) ==
    IF ~IsDict(a) THEN "AttributeError"
    ELSE IF ~IsNum(Get(a, "closing_balance", Num(0))) THEN "TypeError"
    ELSE LET formatted == <<"total_credits", "total_debits", "transaction_count">>
             k == CHOOSE k \in 1..3 :
                     /\ ~IsNum(Get(a, formatted[k], Num(0)))
                     /\ \A j \in 1..(k - 1) : IsNum(Get(a, formatted[j], Num(0)))
         IN  IF IsStr(Get(a, formatted[k], Num(0))) THEN "ValueError" ELSE "TypeError"

\* lines 161-177: one row of an account's monthly table (the month label and
\* the resolved high and low balances)
monthly_row(m, schema_version) ==
    [month |-> PyStr(Get(m, "month_name", Get(m, "month", Str("")))),
     high_val |-> get_monthly_high(m, schema_version),
     low_val |-> get_monthly_low(m, schema_version)]

monthly_row_ok(m, schema_version) ==
    /\ IsDict(m)
    /\ NumFields(m, {"opening", "credits", "debits", "closing", "swing",
                     "volatility_pct"})
    /\ IsNum(get_monthly_high(m, schema_version))
    /\ IsNum(get_monthly_low(m, schema_version))

\* lines 159-189: the monthly table of one account
monthly_table(a, schema_version) ==
    LET monthly == Iter(Get(a, "monthly_summary", EmptyList)) IN
    IF ~monthly.ok THEN monthly
    ELSE IF \E i \in 1..Len(monthly.val) :
                ~monthly_row_ok(monthly.val[i], schema_version)
         THEN Raise("TypeError")
         ELSE Ok([i \in 1..Len(monthly.val) |->
                     monthly_row(monthly.val[i], schema_version)])

\* line 331 (the percentages of the documents modelled are whole numbers,
\* which the .0f format prints digit for digit)
alert_line(m, a) ==
    PyStr(Get(m, "month_name", Get(m, "month", Str(""))))
        \o " (" \o PyStr(Get(a, "bank_name", Str(""))) \o "): "
        \o ToString(Get(m, "volatility_pct", Num(0)).v)
        \o "% volatility - " \o Get(m, "volatility_level", Str("LOW")).v

\* variant: only EXTREME months raise an alert
is_alert_level_extreme_only(vl) == vl = Str("EXTREME")

\* line 330
is_alert_level(vl) == vl \in {Str("HIGH"), Str("EXTREME")}

RECURSIVE month_alerts(_, _)
month_alerts(monthly, a) ==
    IF monthly = << >> THEN << >>
    ELSE (IF is_alert_level(Get(Head(monthly), "volatility_level", Str("LOW")))
          THEN <<Str(alert_line(Head(monthly), a))>> ELSE << >>)
         \o month_alerts(Tail(monthly), a)

\* lines 325-331: the lines appended, account by account, month by month
RECURSIVE derive_alerts(_)
derive_alerts(accounts) ==
    IF accounts = << >> THEN << >>
    ELSE month_alerts(Iter(Get(Head(accounts), "monthly_summary", EmptyList)).val,
                      Head(accounts))
         \o derive_alerts(Tail(accounts))

\* lines 322-332: the alert list, and the document after the appends (the
\* list appended to is the document's own when volatility has an 'alerts' key)
volatility_alerts(d, accounts) ==
    LET volatility == Get(d, "volatility", EmptyDict)
        given == Get(volatility, "alerts", EmptyList)
    IN  IF Truthy(given)
        THEN [res |-> Iter(given), data |-> d]
        ELSE LET derived == derive_alerts(accounts) IN
             IF derived = << >> THEN [res |-> Ok(<< >>), data |-> d]
             ELSE IF ~IsList(given) THEN [res |-> Raise("AttributeError"), data |-> d]
             ELSE [res |-> Ok(derived),
                   data |-> IF HasKey(volatility, "alerts")
                            THEN SetKey(d, "volatility",
                                        SetKey(volatility, "alerts", List(derived)))
                            ELSE d]

\* line 1080
points_card(integrity, max_integrity_points) ==
    PyStr(Get(integrity, "points_earned", Num(0))) \o "/"
        \o ToString(max_integrity_points)

\* line 1089
scoring_note(schema_version, max_integrity_points) ==
    "v" \o schema_version \o " uses " \o ToString(max_integrity_points)
        \o "-point system. Score = (Points Earned / "
        \o ToString(max_integrity_points) \o ") x 100"

\* variant: the amount seen is never recorded
dedup_sources_unrecorded(nb_sources, seen_amounts) == nb_sources

\* lines 548-556
RECURSIVE dedup_sources(_, _)
dedup_sources(nb_sources, seen_amounts) ==
    IF nb_sources = << >> THEN << >>
    ELSE LET amount == Get(Head(nb_sources), "total_inflow", Num(0)) IN
         IF amount \notin seen_amounts
         THEN <<Head(nb_sources)>>
              \o dedup_sources(Tail(nb_sources), seen_amounts \cup {amount})
         ELSE dedup_sources(Tail(nb_sources), seen_amounts)

\* lines 557-567: the cells of a rendered source row
source_row(s) ==
    [source_type |-> PyStr(Get(s, "source_type", Str(""))),
     total_inflow |-> Get(s, "total_inflow", Num(0)).v]

source_row_ok(s) ==
    /\ IsNum(Get(s, "total_inflow", Num(0)))
    /\ IsNum(PyOr(Get(s, "total_repayment", Num(0)), Num(0)))

\* lines 530-567: the rows of the financing-source table when the section is
\* rendered
nonbank_sources(non_bank) ==
    IF ~Truthy(non_bank) THEN Ok(<< >>)
    ELSE IF ~IsDict(non_bank) THEN Raise("AttributeError")
    ELSE LET nb_sources == Iter(Get(non_bank, "sources", EmptyList)) IN
         IF ~nb_sources.ok THEN nb_sources
         ELSE IF ~AllDicts(nb_sources.val) THEN Raise("AttributeError")
         ELSE LET unique_sources == dedup_sources(nb_sources.val, {}) IN
              IF \E i \in 1..Len(unique_sources) : ~source_row_ok(unique_sources[i])
              THEN Raise("TypeError")
              ELSE Ok([i \in 1..Len(unique_sources) |-> source_row(unique_sources[i])])

\* line 359
month_names_list ==
    <<"Jan", "Feb", "Mar", "Apr", "May", "Jun", "Jul", "Aug", "Sep", "Oct", "Nov", "Dec">>

\* s.split('-')
RECURSIVE split_dash(_)
split_dash(s) ==
    IF ~Contains(s, "-") THEN <<s>>
    ELSE LET k == CHOOSE i \in 1..Len(s) :
                      /\ SubSeq(s, i, i) = "-"
                      /\ \A j \in 1..(i - 1) : SubSeq(s, j, j) # "-"
         IN  <<SubSeq(s, 1, k - 1)>> \o split_dash(SubSeq(s, k + 1, Len(s)))

\* int(s), for the texts of the months modelled: digits give their number,
\* any other text is refused
py_int(s) ==
    IF s # "" /\ \A i \in 1..Len(s) : SubSeq(s, i, i) \in Digits
    THEN Ok(ToNat(s)) ELSE Raise("ValueError")

\* line 358: period_start[:4] if period_start else '2024'
period_year_of(period_start) ==
    IF ~Truthy(period_start) THEN "2024"
    ELSE IF IsStr(period_start) THEN Take(period_start.v, 4)
    ELSE PyStr(List(Take(period_start.v, 4)))

\* lines 365-375: the label of a monthly entry; month_names_list[-1] is Dec
chart_label(m, period_year) ==
    LET month_str == Get(m, "month", Str(""))
        month_name == Get(m, "month_name", Str(""))
    IN  IF Truthy(month_str) /\ ~InValue("-", month_str).ok THEN Raise("TypeError")
        ELSE IF Truthy(month_str) /\ InValue("-", month_str).val
        THEN IF ~IsStr(month_str) THEN Raise("AttributeError")
             ELSE LET month_num == py_int(split_dash(month_str.v)[2]) IN
                  IF ~month_num.ok THEN month_num
                  ELSE IF month_num.val > 12 THEN Raise("IndexError")
                  ELSE Ok(Str(month_names_list[IF month_num.val = 0 THEN 12
                                               ELSE month_num.val]
                              \o " " \o period_year))
        ELSE IF Truthy(month_name) THEN Ok(month_name)
        ELSE Ok(Get(m, "month", Str("")))

\* lines 361-382: the series of the volatility chart, one per account, of
\* accounts whose monthly tables were rendered
vol_data(accounts, period_start) ==
    LET period_year == period_year_of(period_start)
        monthly(i) == Iter(Get(accounts[i], "monthly_summary", EmptyList)).val
        failing(i) == {j \in 1..Len(monthly(i)) :
                          ~chart_label(monthly(i)[j], period_year).ok}
        bad == {i \in 1..Len(accounts) : failing(i) # {}}
    IN  IF bad # {}
        THEN LET i == CHOOSE i \in bad : \A k \in bad : i <= k
                 j == CHOOSE j \in failing(i) : \A k \in failing(i) : j <= k
             IN  chart_label(monthly(i)[j], period_year)
        ELSE Ok([i \in 1..Len(accounts) |->
                    [x |-> [j \in 1..Len(monthly(i)) |->
                               chart_label(monthly(i)[j], period_year).val],
                     y |-> [j \in 1..Len(monthly(i)) |->
                               Get(monthly(i)[j], "volatility_pct", Num(0))],
                     name |-> Get(accounts[i], "bank_name", Str(""))]])

UpperChars == "ABCDEFGHIJKLMNOPQRSTUVWXYZ"
LowerChars == "abcdefghijklmnopqrstuvwxyz"

\* the position of the character c in s, 0 when it is not there
CharIndex(s, c) ==
    IF \E i \in 1..Len(s) : SubSeq(s, i, i) = c
    THEN CHOOSE i \in 1..Len(s) : SubSeq(s, i, i) = c
    ELSE 0

\* the text with every character of the alphabet from replaced by the one at
\* the same place of the alphabet to
RECURSIVE translated(_, _, _)
translated(text, from, to) ==
    IF text = "" THEN ""
    ELSE LET c == SubSeq(text, 1, 1)
             k == CharIndex(from, c)
         IN  (IF k > 0 THEN SubSeq(to, k, k) ELSE c)
             \o translated(SubSeq(text, 2, Len(text)), from, to)

\* str.upper(), str.lower() (letters A-Z) and str.replace('/', '_')
upper(text) == translated(text, LowerChars, UpperChars)
lower(text) == translated(text, UpperChars, LowerChars)
slash_to_underscore(text) == translated(text, "/", "_")

\* line 454
payment_types ==
    <<"EPF/KWSP", "SOCSO/PERKESO", "TAX/LHDN", "RENT", "UTILITIES", "LOAN_REPAYMENT">>

\* variant: the lists are looked at starting from payment_types
rec_payments_of_types_first(recurring) ==
    LET a == Get(recurring, "payment_types", EmptyList)
        b == Get(recurring, "statutory_payments", EmptyList)
    IN  IF Truthy(a) THEN a
        ELSE IF Truthy(b) THEN b
        ELSE Get(recurring, "payments", EmptyList)

\* line 448: a or b or c
rec_payments_of(recurring) ==
    LET a == Get(recurring, "payments", EmptyList)
        b == Get(recurring, "statutory_payments", EmptyList)
    IN  IF Truthy(a) THEN a
        ELSE IF Truthy(b) THEN b
        ELSE Get(recurring, "payment_types", EmptyList)

\* line 456: the sub-object of a payment type, under its lower-case key or
\* under the type itself
pt_data_of(recurring, pt) ==
    PyOr(Get(recurring, slash_to_underscore(lower(pt)), EmptyDict),
         Get(recurring, pt, EmptyDict))

\* lines 458-464: the payment built from the sub-object of a type
synth_payment(pt, pt_data, total_months) ==
    Dict(<< <<"type", Str(pt)>>,
            <<"expected_count", Get(pt_data, "expected", total_months)>>,
            <<"found_count", Get(pt_data, "found", Get(pt_data, "count", Num(0)))>>,
            <<"missing_months", Get(pt_data, "missing_months", EmptyList)>>,
            <<"status", Get(pt_data, "status", Str("OK"))>> >>)

\* lines 455-464: the payments built for the types from the i-th to the
\* last-th
RECURSIVE synth_payments(_, _, _, _)
synth_payments(recurring, total_months, i, last) ==
    IF i > last THEN << >>
    ELSE LET pt_data == pt_data_of(recurring, payment_types[i]) IN
         (IF Truthy(pt_data)
          THEN <<synth_payment(payment_types[i], pt_data, total_months)>>
          ELSE << >>)
         \o synth_payments(recurring, total_months, i + 1, last)

\* lines 453-464: the payment list after the synthesis, and the section as
\* the loop leaves it: the payments are appended to the list the lookup
\* returned, which is the document's own payment_types list when there is one
resolve_rec_payments(recurring, total_months) ==
    LET rec_payments == rec_payments_of(recurring)
        types == 1..Len(payment_types)
        present == {i \in types : Truthy(pt_data_of(recurring, payment_types[i]))}
        bad == {i \in present : ~IsDict(pt_data_of(recurring, payment_types[i]))}
        last == IF bad = {} THEN Len(payment_types)
                ELSE (CHOOSE i \in bad : \A j \in bad : i <= j) - 1
        built == List(synth_payments(recurring, total_months, 1, last))
        after == IF HasKey(recurring, "payment_types")
                 THEN SetKey(recurring, "payment_types", built)
                 ELSE recurring
    IN  IF Truthy(rec_payments) \/ present = {}
        THEN [res |-> Ok(rec_payments), recurring |-> recurring]
        ELSE IF ~IsList(rec_payments)
        THEN [res |-> Raise("AttributeError"), recurring |-> recurring]
        ELSE IF bad # {}
        THEN [res |-> Raise("AttributeError"), recurring |-> after]
        ELSE [res |-> Ok(built), recurring |-> after]

\* lines 467-476: can the row of a payment be rendered
rec_row_ok(p) ==
    /\ IsDict(p)
    /\ Iter(Get(p, "missing_months", EmptyList)).ok
    /\ \A i \in 1..Len(Iter(Get(p, "missing_months", EmptyList)).val) :
          IsStr(Iter(Get(p, "missing_months", EmptyList)).val[i])

\* lines 467-476: the row of a payment
rec_row(p) ==
    LET status == Get(p, "status", Str("OK"))
        months == Iter(Get(p, "missing_months", EmptyList)).val
        missing == Join([i \in 1..Len(months) |-> months[i].v], ", ")
    IN  [type |-> PyStr(Get(p, "type", Get(p, "payment_type", Str("")))),
         expected |-> PyStr(Get(p, "expected_count", Get(p, "expected", Num(0)))),
         found |-> PyStr(Get(p, "found_count",
                             Get(p, "found", Get(p, "count", Num(0))))),
         missing |-> IF missing = "" THEN "None" ELSE missing,
         status |-> PyStr(status),
         badge |-> IF status \in {Str("OK"), Str("COMPLIANT"), Str("PASS")}
                   THEN "LOW" ELSE "EXTREME"]

\* lines 485-502: the compliance label and the risk of the assessment
compliance_label(rec_assessment) ==
    IF IsStr(rec_assessment)
    THEN LET assessment_text == upper(rec_assessment.v) IN
         IF Contains(assessment_text, "MISSING") \/ Contains(assessment_text, "ALERT")
               \/ Contains(assessment_text, "NOT")
         THEN [compliance |-> "ALERT", risk |-> "MODERATE"]
         ELSE IF Contains(assessment_text, "OK") \/ Contains(assessment_text, "MET")
               \/ Contains(assessment_text, "COMPLIANT")
         THEN [compliance |-> "COMPLIANT", risk |-> "LOW"]
         ELSE [compliance |-> rec_assessment.v, risk |-> "LOW"]
    ELSE IF IsDict(rec_assessment)
    THEN [compliance |-> PyStr(Get(rec_assessment, "statutory_compliance",
                                   Get(rec_assessment, "compliance", Str("COMPLIANT")))),
          risk |-> PyStr(Get(rec_assessment, "risk_level", Str("LOW")))]
    ELSE [compliance |-> "COMPLIANT", risk |-> "LOW"]

\* lines 449, 482: the alerts of the section, or the line shown without any
rec_alerts_of(recurring) ==
    LET rec_alerts == PyOr(Get(recurring, "alerts", EmptyList),
                           Get(recurring, "warnings", EmptyList))
    IN  IF ~Truthy(rec_alerts) THEN Ok(<<"All statutory payments detected">>)
        ELSE IF ~Iter(rec_alerts).ok THEN Raise("TypeError")
        ELSE Ok([i \in 1..Len(Iter(rec_alerts).val) |-> PyStr(Iter(rec_alerts).val[i])])

NoRecurring ==
    [rows |-> << >>, note |-> "", alerts |-> << >>, compliance |-> "", risk |-> ""]

\* lines 445-525: the recurring-payments section, and the section of the
\* document after it was read
recurring_section(recurring, total_months) ==
    IF ~Truthy(recurring) THEN [res |-> Ok(NoRecurring), recurring |-> recurring]
    ELSE IF ~IsDict(recurring) THEN [res |-> Raise("AttributeError"), recurring |-> recurring]
    ELSE
    LET rec_alerts == rec_alerts_of(recurring)
        label == compliance_label(Get(recurring, "assessment", EmptyDict))
        \* lines 466-525, with the payments iterated and the rows in error
        rendered(rec_payments, bad) ==
            IF ~rec_payments.ok THEN rec_payments
            ELSE IF bad # {}
            THEN IF IsDict(rec_payments.val[CHOOSE i \in bad : \A j \in bad : i <= j])
                 THEN Raise("TypeError") ELSE Raise("AttributeError")
            ELSE IF ~rec_alerts.ok THEN rec_alerts
            ELSE Ok([rows |-> [i \in 1..Len(rec_payments.val) |->
                                  rec_row(rec_payments.val[i])],
                     note |-> IF rec_payments.val = << >>
                              THEN "No statutory payment data available in JSON"
                              ELSE "",
                     alerts |-> rec_alerts.val,
                     compliance |-> label.compliance,
                     risk |-> label.risk])
        rows_in_error(rec_payments) ==
            IF ~rec_payments.ok THEN {}
            ELSE {i \in 1..Len(rec_payments.val) : ~rec_row_ok(rec_payments.val[i])}
        shown(rec_payments) == rendered(rec_payments, rows_in_error(rec_payments))
        \* lines 448-525, with the payment list resolved
        section(resolved) ==
            IF ~resolved.res.ok THEN resolved
            ELSE [res |-> shown(Iter(resolved.res.val)),
                  recurring |-> resolved.recurring]
    IN  section(resolve_rec_payments(recurring, total_months))

\* variant: the top-level risk level wins over the one of the assessment
nonbank_risk_top_first(non_bank) ==
    LET nb_assessment == Get(non_bank, "assessment", EmptyDict) IN
    IF HasKey(non_bank, "risk_level") THEN Get(non_bank, "risk_level", Str("LOW"))
    ELSE IF IsDict(nb_assessment) THEN Get(nb_assessment, "risk_level", Str("LOW"))
    ELSE Str("LOW")

\* lines 534-543: the risk level of the non-bank section
nonbank_risk(non_bank) ==
    LET nb_assessment == Get(non_bank, "assessment", EmptyDict)
        nb_risk == Get(non_bank, "risk_level", Str("LOW"))
    IN  IF IsDict(nb_assessment) THEN Get(nb_assessment, "risk_level", nb_risk)
        ELSE nb_risk

\* lines 534-546, 607: the summary shown under the sources, "" for none
nonbank_summary(non_bank) ==
    LET nb_assessment == Get(non_bank, "assessment", EmptyDict)
        nb_summary == IF IsStr(nb_assessment) THEN nb_assessment
                      ELSE IF IsDict(nb_assessment)
                      THEN Get(nb_assessment, "summary", Str(""))
                      ELSE Str("")
    IN  IF Truthy(nb_summary) THEN PyStr(nb_summary) ELSE ""

\* lines 572-577: can the row of a suspected lender be rendered
suspected_row(sus) ==
    IF ~IsDict(sus) THEN Raise("AttributeError")
    ELSE LET who == PyOr(PyOr(Get(sus, "counterparty", Null),
                              Get(sus, "description", Null)), Str(""))
         IN  IF ~(IsStr(who) \/ IsList(who)) THEN Raise("TypeError")
             ELSE IF ~IsNum(Get(sus, "amount", Num(0)))
             THEN Raise(IF IsStr(Get(sus, "amount", Num(0)))
                        THEN "ValueError" ELSE "TypeError")
             ELSE Ok(PyStr(IF IsStr(who) THEN Str(Take(who.v, 40))
                           ELSE List(Take(who.v, 40))))

\* lines 533, 570-577: the counterparties of the suspected-lender rows
nonbank_suspected(non_bank) ==
    LET nb_suspected == Get(non_bank, "suspected_unlicensed", EmptyList) IN
    IF ~Truthy(non_bank) THEN Ok(<< >>)
    ELSE IF ~(IsList(nb_suspected) \/ IsStr(nb_suspected)) THEN Raise("TypeError")
    ELSE LET shown == Take(Iter(nb_suspected).val, 10)
             bad == {i \in 1..Len(shown) : ~suspected_row(shown[i]).ok}
         IN  IF bad # {}
             THEN suspected_row(shown[CHOOSE i \in bad : \A j \in bad : i <= j])
             ELSE Ok([i \in 1..Len(shown) |-> suspected_row(shown[i]).val])

\* lines 446/505, 531/590, 616/670: an optional section's markup
recurring_tab(recurring) == IF Truthy(recurring) THEN <<"tab-recurring">> ELSE << >>
nonbank_tab(non_bank) == IF Truthy(non_bank) THEN <<"tab-nonbank">> ELSE << >>
counterparty_tab(counterparties) ==
    IF Truthy(counterparties) THEN <<"tab-counterparties">> ELSE << >>

\* lines 754-756: an optional section's navigation button
recurring_nav(recurring) == IF Truthy(recurring) THEN <<"recurring">> ELSE << >>
nonbank_nav(non_bank) == IF Truthy(non_bank) THEN <<"nonbank">> ELSE << >>
\* variant: the counterparty button is rendered unconditionally
counterparty_nav_always(counterparties) == <<"counterparties">>

counterparty_nav(counterparties) ==
    IF Truthy(counterparties) THEN <<"counterparties">> ELSE << >>

\* lines 929-942: the data-tab names of the navigation buttons, in order
nav_tabs(recurring, non_bank, counterparties) ==
    <<"overview", "accounts", "turnover", "categories">>
        \o counterparty_nav(counterparties)
        \o <<"volatility", "flags", "integrity", "related">>
        \o recurring_nav(recurring) \o nonbank_nav(non_bank)
        \o <<"recommendations">>

\* lines 944-1123: the ids of the tab-content sections, in order
tab_sections(recurring, non_bank, counterparties) ==
    <<"tab-overview", "tab-accounts", "tab-turnover", "tab-categories">>
        \o counterparty_tab(counterparties)
        \o <<"tab-volatility", "tab-flags", "tab-integrity", "tab-related">>
        \o recurring_tab(recurring) \o nonbank_tab(non_bank)
        \o <<"tab-recommendations">>

\* lines 101-104, 358, 764, 918-919, 1127: title, header and footer; the
\* footer falls back on the wall clock
period_ok(r) ==
    LET period_start == Get(r, "period_start", Str("")) IN
    ~Truthy(period_start) \/ period_start.t \in {"str", "list"}

header(r, now) ==
    [company |-> PyStr(Get(r, "company_name", Str("Company"))),
     period_start |-> PyStr(Get(r, "period_start", Str(""))),
     period_end |-> PyStr(Get(r, "period_end", Str(""))),
     total_months |-> PyStr(Get(r, "total_months", Num(0))),
     generated_at |-> PyStr(Get(r, "generated_at", Str(now)))]

\* line 111
RECURSIVE total_txns(_)
total_txns(accounts) ==
    IF accounts = << >> THEN 0
    ELSE Get(Head(accounts), "transaction_count", Num(0)).v + total_txns(Tail(accounts))

\* lines 113-118, 123-125, 128, 703, 946-948: the score cards and the
\* returned-cheque figures
scores_ok(integrity, volatility, returned_cheques) ==
    /\ IsNum(Get(integrity, "score", Num(0)))
    /\ IsNum(Get(volatility, "overall_index", Num(0)))
    /\ IsNum(Get(returned_cheques, "count", Num(0)))

scores(integrity, kite, volatility, returned_cheques) ==
    [int_score |-> PyStr(Get(integrity, "score", Num(0))),
     int_rating |-> PyStr(Get(integrity, "rating", Str("N/A"))),
     kite_score |-> PyStr(Get(kite, "risk_score", Num(0))),
     kite_level |-> PyStr(Get(kite, "risk_level", Str("LOW"))),
     vol_index |-> Get(volatility, "overall_index", Num(0)).v,
     vol_level |-> PyStr(Get(volatility, "overall_level", Str("LOW"))),
     returned_count |-> Get(returned_cheques, "count", Num(0)).v,
     returned_assessment |->
         PyStr(Get(returned_cheques, "assessment", Str("ACCEPTABLE")))]

\* lines 134-152: the texts of an account card
account_card(a) ==
    [bank_name |-> PyStr(Get(a, "bank_name", Str(""))),
     account_number |-> PyStr(Get(a, "account_number", Str(""))),
     cls |-> PyStr(Get(a, "classification", Str("SECONDARY")))]

\* variant: an observation list must be there
observation_items_required(observations, k) ==
    IF ~HasKey(observations, k) THEN Raise("KeyError")
    ELSE LET obs == Iter(Get(observations, k, EmptyList)) IN
         IF ~obs.ok THEN obs
         ELSE Ok([i \in 1..Len(obs.val) |-> PyStr(obs.val[i])])

\* lines 252-253: the items of an observation list
observation_items(observations, k) ==
    LET obs == Iter(Get(observations, k, EmptyList)) IN
    IF ~obs.ok THEN obs
    ELSE Ok([i \in 1..Len(obs.val) |-> PyStr(obs.val[i])])

\* lines 257-266: the texts of a recommendation
recommendation_ok(rec) == IsDict(rec) /\ IsStr(Get(rec, "priority", Str("LOW")))

recommendation_item(rec) ==
    [priority |-> PyStr(Get(rec, "priority", Str("LOW"))),
     category |-> PyStr(Get(rec, "category", Str(""))),
     recommendation |-> PyStr(Get(rec, "recommendation", Str("")))]

\* lines 407-409, 1100-1102: the related-party summary cards
related_party_summary(exc_credits, exc_debits) ==
    LET rp_credit == Get(exc_credits, "related_party", Num(0))
        rp_debit == Get(exc_debits, "related_party", Num(0))
    IN  IF ~IsNum(rp_credit) \/ ~IsNum(rp_debit) THEN Raise("TypeError")
        ELSE Ok([rp_credit |-> rp_credit.v, rp_debit |-> rp_debit.v,
                 rp_net |-> rp_credit.v - rp_debit.v])

\* lines 411-419: the declared related parties, comma separated
related_party_names(related_parties) ==
    IF ~Truthy(related_parties) THEN Ok("None specified")
    ELSE LET first == Index0(related_parties)
             ps == Iter(related_parties)
         IN  IF ~first.ok THEN first
             ELSE IF IsDict(first.val)
             THEN IF ~AllDicts(ps.val) THEN Raise("AttributeError")
                  ELSE IF \E i \in 1..Len(ps.val) :
                              ~IsStr(Get(ps.val[i], "name", Str("")))
                       THEN Raise("TypeError")
                  ELSE Ok(Join([i \in 1..Len(ps.val) |->
                                   Get(ps.val[i], "name", Str(PyStr(ps.val[i]))).v],
                               ", "))
             ELSE Ok(Join([i \in 1..Len(ps.val) |-> PyStr(ps.val[i])], ", "))

\* line 1105: len(related_parties)
related_party_count(related_parties) ==
    IF related_parties.t \in {"list", "dict", "str"}
    THEN Ok(Len(related_parties.v)) ELSE Raise("TypeError")

\* lines 423-427
safe_exclusion_value(val) ==
    IF IsDict(val) THEN Get(val, "total", Num(0))
    ELSE IF IsNum(val) THEN val ELSE Num(0)

\* lines 429-440: the exclusion amounts of the breakdown tables
exclusion_values(exc_credits, exc_debits) ==
    [cr_inter |-> safe_exclusion_value(Get(exc_credits, "inter_account", Num(0))),
     cr_related |-> safe_exclusion_value(Get(exc_credits, "related_party", Num(0))),
     cr_reversals |-> safe_exclusion_value(Get(exc_credits, "reversals", Num(0))),
     cr_loan |-> safe_exclusion_value(Get(exc_credits, "loan_disbursement", Num(0))),
     cr_interest |->
         safe_exclusion_value(Get(exc_credits, "interest_fd_dividend", Num(0))),
     cr_total |-> safe_exclusion_value(Get(exc_credits, "total", Num(0))),
     dr_inter |-> safe_exclusion_value(Get(exc_debits, "inter_account", Num(0))),
     dr_related |-> safe_exclusion_value(Get(exc_debits, "related_party", Num(0))),
     dr_returned |-> safe_exclusion_value(Get(exc_debits, "returned_cheque", Num(0))),
     dr_total |-> safe_exclusion_value(Get(exc_debits, "total", Num(0)))]

\* lines 987-1000: every amount is formatted as a number
exclusion_values_ok(ex) == \A k \in DOMAIN ex : IsNum(ex[k])

\* lines 201-249, 342-354: the rows of a category table
top5_ok(top5) ==
    \/ top5.t \in {"list", "dict", "str"} /\ Len(top5.v) = 0
    \/ /\ IsList(top5)
       /\ \A i \in 1..Len(top5.v) :
             /\ IsDict(top5.v[i])
             /\ NumFields(top5.v[i], {"amount"})
             /\ PyOr(PyOr(Get(top5.v[i], "counterparty", Null),
                          Get(top5.v[i], "description", Null)), Str("")).t
                  \in {"str", "list"}

category_ok(c) ==
    /\ IsDict(c)
    /\ NumFields(c, {"amount", "percentage"})
    /\ top5_ok(Get(c, "top_5_transactions", EmptyList))

category_rows(categories, k) ==
    LET cat == Iter(Get(categories, k, EmptyList)) IN
    IF ~cat.ok THEN cat
    ELSE IF \E i \in 1..Len(cat.val) : ~category_ok(cat.val[i])
    THEN Raise("TypeError")
    ELSE Ok([i \in 1..Len(cat.val) |-> PyStr(Get(cat.val[i], "category", Str("")))])

\* lines 703-716: the returned-cheque card is built when the count is positive
returned_ok(returned_cheques) ==
    Get(returned_cheques, "count", Num(0)).v > 0 =>
        LET ret_txns == Get(returned_cheques, "transactions", EmptyList) IN
        /\ IsList(ret_txns)
        /\ \A i \in 1..Len(ret_txns.v) :
              /\ IsDict(ret_txns.v[i])
              /\ NumFields(ret_txns.v[i], {"amount"})
              /\ Get(ret_txns.v[i], "description", Str("")).t \in {"str", "list"}
        /\ NumFields(returned_cheques, {"total_value"})

\* lines 287-304: the indicator list is probed by its first entry
kite_ok(kite) ==
    LET kite_indicators == Get(kite, "indicators", EmptyList)
        detailed_findings == Get(kite, "detailed_findings", EmptyList)
        first == Index0(kite_indicators)
    IN  \/ ~Truthy(kite_indicators)
        \/ /\ first.ok
           /\ IsDict(first.val) => AllDicts(kite_indicators.v)
           /\ IsStr(first.val) =>
                 /\ IsNum(Get(kite, "risk_score", Num(0)))
                 /\ \/ detailed_findings.t \in {"list", "str"}
                    \/ detailed_findings = EmptyDict

KiteRow(indicator, status, points, finding) ==
    [indicator |-> indicator, status |-> status, points |-> points, finding |-> finding]

\* lines 293-296: the row of an indicator given as an object
kite_dict_row(i) ==
    KiteRow(PyStr(Get(i, "indicator", Str(""))), PyStr(Get(i, "status", Str("PASS"))),
            PyStr(Get(i, "points", Num(0))), PyStr(Get(i, "finding", Str(""))))

\* variant: the row of a text indicator always shows the indicator as finding
kite_str_row_unpaired(kite_indicators, detailed_findings, kite_score, idx) ==
    KiteRow(PyStr(kite_indicators[idx]),
            IF kite_score > 0 THEN "WARNING" ELSE "PASS",
            "-",
            PyStr(kite_indicators[idx]))

\* lines 300-304: the row of the idx-th indicator (counted from 1) of a list
\* of texts
kite_str_row(kite_indicators, detailed_findings, kite_score, idx) ==
    KiteRow(PyStr(kite_indicators[idx]),
            IF kite_score > 0 THEN "WARNING" ELSE "PASS",
            "-",
            PyStr(IF idx <= Len(detailed_findings) THEN detailed_findings[idx]
                  ELSE kite_indicators[idx]))

\* variant: the round-amount row warns from a count of 5 on
default_indicators_from_5(round_count) ==
    <<KiteRow("Circular Transfers", "PASS", "0", "No A→B→A patterns detected"),
      KiteRow("Month-End Concentration", "PASS", "0", "Normal distribution"),
      KiteRow("Round Amount Patterns",
              IF round_count >= 5 THEN "WARNING" ELSE "PASS",
              IF round_count >= 5 THEN "2" ELSE "0",
              ToString(round_count) \o " round figure transactions"),
      KiteRow("Timing Exploitation", "PASS", "0", "No suspicious timing patterns"),
      KiteRow("Suspicious Balance Spikes", "PASS", "0",
              "Balance movements within normal range"),
      KiteRow("Same Amount In/Out", "PASS", "0", "No matching in/out amounts detected"),
      KiteRow("Vague Descriptions", "PASS", "0", "Transaction descriptions are clear")>>

\* lines 308-316
default_indicators(round_count) ==
    <<KiteRow("Circular Transfers", "PASS", "0", "No A→B→A patterns detected"),
      KiteRow("Month-End Concentration", "PASS", "0", "Normal distribution"),
      KiteRow("Round Amount Patterns",
              IF round_count > 5 THEN "WARNING" ELSE "PASS",
              IF round_count > 5 THEN "2" ELSE "0",
              ToString(round_count) \o " round figure transactions"),
      KiteRow("Timing Exploitation", "PASS", "0", "No suspicious timing patterns"),
      KiteRow("Suspicious Balance Spikes", "PASS", "0",
              "Balance movements within normal range"),
      KiteRow("Same Amount In/Out", "PASS", "0", "No matching in/out amounts detected"),
      KiteRow("Vague Descriptions", "PASS", "0", "Transaction descriptions are clear")>>

\* lines 287-320: the rows of the indicator table of a section that can be
\* rendered
kite_rows(kite, round_count) ==
    LET kite_indicators == Get(kite, "indicators", EmptyList)
        entries == Iter(kite_indicators).val
        detailed_findings == Iter(Get(kite, "detailed_findings", EmptyList)).val
        kite_score == Get(kite, "risk_score", Num(0)).v
    IN  IF Truthy(kite_indicators) /\ IsDict(entries[1])
        THEN [i \in 1..Len(entries) |-> kite_dict_row(entries[i])]
        ELSE IF Truthy(kite_indicators) /\ IsStr(entries[1])
        THEN [i \in 1..Len(entries) |->
                 kite_str_row(entries, detailed_findings, kite_score, i)]
        ELSE default_indicators(round_count)

\* lines 720-736, 741-751: the inter-account transfers read
inter_account_ok(inter_account) ==
    /\ IsDict(inter_account)
    /\ IsDict(Get(inter_account, "matched_transfers", EmptyDict))
    /\ IsDict(Get(inter_account, "unverified_transfers", EmptyDict))
    /\ IsDict(Get(inter_account, "summary", EmptyDict))
    /\ LET matched == Get(inter_account, "matched_transfers", EmptyDict)
           summary == Get(inter_account, "summary", EmptyDict)
           inter_transfers ==
               Get(matched, "all_transfers",
                   Get(matched, "top_10_transfers",
                       Get(inter_account, "transfers", EmptyList)))
           inter_total ==
               Get(summary, "total_amount", Get(inter_account, "total_amount", Num(0)))
       IN  \/ inter_transfers.t \in {"list", "str", "dict"} /\ Len(inter_transfers.v) = 0
           \/ /\ IsList(inter_transfers)
              /\ IsNum(inter_total)
              /\ \A i \in 1..Len(Take(inter_transfers.v, 10)) :
                    LET t == inter_transfers.v[i] IN
                    /\ IsDict(t)
                    /\ NumFields(t, {"amount"})
                    /\ Get(t, "from_account", Get(t, "debit_account", Str(""))).t
                         \in {"str", "list"}
                    /\ Get(t, "to_account", Get(t, "credit_account", Str(""))).t
                         \in {"str", "list"}

\* x[-8:] of a text or a list, as the f-string shows it
last8(x) ==
    LET n == Len(x.v)
        from == IF n > 8 THEN n - 7 ELSE 1
    IN  IF IsStr(x) THEN SubSeq(x.v, from, n) ELSE PyStr(List(SubSeq(x.v, from, n)))

\* lines 730-736: the cells of a transfer row
inter_row(t) ==
    [date |-> PyStr(Get(t, "date", Str(""))),
     from |-> last8(Get(t, "from_account", Get(t, "debit_account", Str("")))),
     to |-> last8(Get(t, "to_account", Get(t, "credit_account", Str("")))),
     amount |-> Get(t, "amount", Num(0)).v]

NoTransfers == [shown |-> FALSE, count |-> "", total |-> 0, rows |-> << >>]

\* lines 718-751: the inter-account transfers section of a section that can
\* be rendered: the transfer list, the count and the total shown
inter_transfers_section(inter_account) ==
    LET matched == Get(inter_account, "matched_transfers", EmptyDict)
        summary == Get(inter_account, "summary", EmptyDict)
        inter_transfers ==
            Get(matched, "all_transfers",
                Get(matched, "top_10_transfers",
                    Get(inter_account, "transfers", EmptyList)))
        inter_count ==
            Get(summary, "total_count",
                Get(inter_account, "detected_count", Num(Len(inter_transfers.v))))
        inter_total ==
            Get(summary, "total_amount", Get(inter_account, "total_amount", Num(0)))
    IN  IF ~Truthy(inter_transfers) THEN NoTransfers
        ELSE [shown |-> TRUE,
              count |-> PyStr(inter_count),
              total |-> inter_total.v,
              rows |-> [i \in 1..Len(Take(inter_transfers.v, 10)) |->
                           inter_row(inter_transfers.v[i])]]

\* lines 971-978: the turnover figures are formatted as numbers
turnover_ok(consolidated) ==
    /\ IsDict(Get(consolidated, "gross", EmptyDict))
    /\ IsDict(Get(consolidated, "business_turnover", EmptyDict))
    /\ NumFields(Get(consolidated, "gross", EmptyDict),
                 {"total_credits", "total_debits", "net_flow"})
    /\ NumFields(Get(consolidated, "business_turnover", EmptyDict),
                 {"net_credits", "net_debits", "net_flow"})

\* lines 528-1164: the rest of the report, with the parts rendered so far
\* (items), the chart series, the related parties, the exclusions, the
\* non-bank rows, the recurring section (rec) and the document as that
\* section left it (d3)
compile_page(d, now, schema_version, items, chart, sources, rp, rp_parties, rp_count, exc, suspected, rec, d3) ==
    LET max_integrity_points == get_integrity_max_points(schema_version)
        r == Get(d, "report_info", EmptyDict)
        accounts == Iter(Get(d, "accounts", EmptyList))
        consolidated == Get(d, "consolidated", EmptyDict)
        volatility == Get(d, "volatility", EmptyDict)
        kite == Get(d, "kite_flying", EmptyDict)
        integrity == Get(d, "integrity_score", EmptyDict)
        recommendations == Iter(Get(d, "recommendations", EmptyList))
        recurring == Get(d, "recurring_payments", EmptyDict)
        non_bank == Get(d, "non_bank_financing", EmptyDict)
        counterparties == Get(d, "counterparties", EmptyDict)
        inter_account == Get(d, "inter_account_transfers", EmptyDict)
        int_checks == Iter(Get(integrity, "checks", EmptyList))
    IN
    IF ~rec.res.ok THEN [res |-> rec.res, data |-> d3]
    ELSE IF ~sources.ok THEN [res |-> sources, data |-> d3]
    ELSE IF ~suspected.ok THEN [res |-> suspected, data |-> d3]
    ELSE IF Truthy(counterparties) /\ ~IsDict(counterparties)
    THEN [res |-> Raise("AttributeError"), data |-> d3]
    ELSE IF ~returned_ok(items.returned_cheques) \/ ~inter_account_ok(inter_account)
    THEN [res |-> Raise("TypeError"), data |-> d3]
    ELSE IF ~turnover_ok(consolidated) \/ ~exclusion_values_ok(exc) \/ ~rp_count.ok
    THEN [res |-> Raise("TypeError"), data |-> d3]
    ELSE
    [res |-> Ok([schema_version |-> schema_version,
                 max_integrity_points |-> max_integrity_points,
                 header |-> header(r, now),
                 total_txns |-> total_txns(accounts.val),
                 scores |-> scores(integrity, kite, volatility, items.returned_cheques),
                 acc_cards |-> [i \in 1..Len(accounts.val) |->
                                   account_card(accounts.val[i])],
                 credits_rows |-> items.credits_rows,
                 debits_rows |-> items.debits_rows,
                 pos_obs |-> items.pos_obs,
                 con_obs |-> items.con_obs,
                 rec_html |-> [i \in 1..Len(recommendations.val) |->
                                  recommendation_item(recommendations.val[i])],
                 points_card |-> points_card(integrity, max_integrity_points),
                 scoring_note |-> scoring_note(schema_version, max_integrity_points),
                 int_rows |-> Len(int_checks.val),
                 monthly_tables |-> items.monthly_tables,
                 round_fig |-> items.rf.round_fig,
                 round_count |-> items.rf.round_count,
                 round_js |-> items.rf.round_js,
                 round_note |-> items.rf.round_note,
                 vol_alerts |-> items.vol_alerts,
                 rp |-> rp.val,
                 rp_parties |-> rp_parties.val,
                 rp_count |-> rp_count.val,
                 exclusions |-> [k \in DOMAIN exc |-> exc[k].v],
                 source_rows |-> sources.val,
                 rec_rows |-> rec.res.val.rows,
                 rec_note |-> rec.res.val.note,
                 rec_alerts |-> rec.res.val.alerts,
                 compliance |-> rec.res.val.compliance,
                 risk |-> rec.res.val.risk,
                 nb_risk |-> IF Truthy(non_bank) THEN PyStr(nonbank_risk(non_bank)) ELSE "",
                 nb_summary |-> IF Truthy(non_bank) THEN nonbank_summary(non_bank) ELSE "",
                 suspected_rows |-> suspected.val,
                 inter |-> inter_transfers_section(inter_account),
                 kite_rows |-> kite_rows(kite, items.rf.round_count),
                 vol_data |-> chart.val,
                 nav_tabs |-> nav_tabs(recurring, non_bank, counterparties),
                 tab_sections |-> tab_sections(recurring, non_bank, counterparties)]),
     data |-> d3]

\* lines 445-525: the document after the recurring section (rec) was read
compile_recurring(d, now, schema_version, items, d2, chart, sources, rp, rp_parties, rp_count, exc, suspected, rec) ==
    compile_page(d, now, schema_version, items, chart, sources, rp, rp_parties,
                 rp_count, exc, suspected, rec,
                 IF rec.recurring = Get(d, "recurring_payments", EmptyDict) THEN d2
                 ELSE SetKey(d2, "recurring_payments", rec.recurring))

\* lines 336-1164: the rest of the report, with the parts rendered so far
\* (items), the document with its volatility alerts (d2), the chart series,
\* the related parties, the exclusions and the non-bank rows
compile_charted(d, now, schema_version, items, d2, chart, sources, rp, rp_parties, rp_count, exc, suspected) ==
    LET r == Get(d, "report_info", EmptyDict)
        consolidated == Get(d, "consolidated", EmptyDict)
        integrity == Get(d, "integrity_score", EmptyDict)
        recurring == Get(d, "recurring_payments", EmptyDict)
        exclusions == Get(consolidated, "exclusions", EmptyDict)
        exc_credits == Get(exclusions, "credits", EmptyDict)
        exc_debits == Get(exclusions, "debits", EmptyDict)
        int_checks == Iter(Get(integrity, "checks", EmptyList))
    IN
    IF ~chart.ok THEN [res |-> chart, data |-> d2]
    ELSE IF ~int_checks.ok THEN [res |-> int_checks, data |-> d2]
    ELSE IF ~AllDicts(int_checks.val)
    THEN [res |-> Raise("AttributeError"), data |-> d2]
    ELSE IF ~IsDict(exclusions) \/ ~IsDict(exc_credits) \/ ~IsDict(exc_debits)
    THEN [res |-> Raise("AttributeError"), data |-> d2]
    ELSE IF ~rp.ok THEN [res |-> rp, data |-> d2]
    ELSE IF ~rp_parties.ok THEN [res |-> rp_parties, data |-> d2]
    ELSE compile_recurring(d, now, schema_version, items, d2, chart, sources, rp,
                           rp_parties, rp_count, exc, suspected,
                           recurring_section(recurring, Get(r, "total_months", Num(0))))

\* lines 98-1164: the rest of the report, with the document and its flags
\* after the fold-in (d1, flags), the round-figure entries, the observations,
\* the category rows, the monthly tables and the volatility alerts
compile_itemised(d, now, schema_version, d1, flags, rf, pos_obs, con_obs, credits_rows, debits_rows, tables, va) ==
    LET r == Get(d, "report_info", EmptyDict)
        accounts == Iter(Get(d, "accounts", EmptyList))
        consolidated == Get(d, "consolidated", EmptyDict)
        volatility == Get(d, "volatility", EmptyDict)
        kite == Get(d, "kite_flying", EmptyDict)
        integrity == Get(d, "integrity_score", EmptyDict)
        recommendations == Iter(Get(d, "recommendations", EmptyList))
        non_bank == Get(d, "non_bank_financing", EmptyDict)
        related_parties == Get(r, "related_parties", EmptyList)
        exclusions == Get(consolidated, "exclusions", EmptyDict)
        exc_credits == Get(exclusions, "credits", EmptyDict)
        exc_debits == Get(exclusions, "debits", EmptyDict)
        returned_cheques == Get(flags, "returned_cheques", EmptyDict)
    IN
    IF ~IsDict(consolidated) THEN [res |-> Raise("AttributeError"), data |-> d1]
    ELSE IF ~accounts.ok THEN [res |-> accounts, data |-> d1]
    ELSE IF \E i \in 1..Len(accounts.val) : ~account_card_ok(accounts.val[i])
    THEN [res |-> Raise(account_card_error(accounts.val[
                      CHOOSE i \in 1..Len(accounts.val) :
                         /\ ~account_card_ok(accounts.val[i])
                         /\ \A j \in 1..(i - 1) : account_card_ok(accounts.val[j])])),
          data |-> d1]
    ELSE IF ~IsDict(volatility) \/ ~IsDict(integrity) \/ ~IsDict(kite)
    THEN [res |-> Raise("AttributeError"), data |-> d1]
    ELSE IF ~rf.ok THEN [res |-> rf, data |-> d1]
    ELSE IF ~kite_ok(kite) THEN [res |-> Raise("TypeError"), data |-> d1]
    ELSE IF ~IsDict(returned_cheques) THEN [res |-> Raise("AttributeError"), data |-> d1]
    ELSE IF ~scores_ok(integrity, volatility, returned_cheques) \/ ~period_ok(r)
    THEN [res |-> Raise("TypeError"), data |-> d1]
    ELSE IF ~credits_rows.ok THEN [res |-> credits_rows, data |-> d1]
    ELSE IF ~debits_rows.ok THEN [res |-> debits_rows, data |-> d1]
    ELSE IF ~pos_obs.ok THEN [res |-> pos_obs, data |-> d1]
    ELSE IF ~con_obs.ok THEN [res |-> con_obs, data |-> d1]
    ELSE IF ~recommendations.ok THEN [res |-> recommendations, data |-> d1]
    ELSE IF \E i \in 1..Len(recommendations.val) :
                ~recommendation_ok(recommendations.val[i])
    THEN [res |-> Raise("AttributeError"), data |-> d1]
    ELSE IF \E i \in 1..Len(tables) : ~tables[i].ok
    THEN [res |-> Raise("TypeError"), data |-> d1]
    ELSE IF ~va.res.ok THEN [res |-> va.res, data |-> d1]
    ELSE compile_charted(d, now, schema_version,
                         [rf |-> rf.val,
                          pos_obs |-> pos_obs.val,
                          con_obs |-> con_obs.val,
                          credits_rows |-> credits_rows.val,
                          debits_rows |-> debits_rows.val,
                          monthly_tables |-> [i \in 1..Len(tables) |-> tables[i].val],
                          vol_alerts |-> [i \in 1..Len(va.res.val) |->
                                             PyStr(va.res.val[i])],
                          returned_cheques |-> returned_cheques],
                         va.data,
                         vol_data(accounts.val, Get(r, "period_start", Str(""))),
                         nonbank_sources(non_bank),
                         related_party_summary(exc_credits, exc_debits),
                         related_party_names(related_parties),
                         related_party_count(related_parties),
                         exclusion_values(exc_credits, exc_debits),
                         nonbank_suspected(non_bank))

\* lines 56-1164: the report, with the schema version detected and the flags
\* sections of lines 60-92 folded in
compile_versioned(d, now, sv, folded) ==
    LET accounts == Iter(Get(d, "accounts", EmptyList))
        categories == Get(d, "categories", EmptyDict)
        observations == Get(d, "observations", EmptyDict)
    IN
    IF ~sv.ok THEN [res |-> sv, data |-> d]
    ELSE compile_itemised(d, now, sv.val, folded.data, folded.flags,
                          round_figure(folded.flags),
                          IF IsDict(observations)
                          THEN observation_items(observations, "positive")
                          ELSE Raise("AttributeError"),
                          IF IsDict(observations)
                          THEN observation_items(observations, "concerns")
                          ELSE Raise("AttributeError"),
                          IF IsDict(categories)
                          THEN category_rows(categories, "credits")
                          ELSE Raise("AttributeError"),
                          IF IsDict(categories)
                          THEN category_rows(categories, "debits")
                          ELSE Raise("AttributeError"),
                          [i \in 1..Len(accounts.val) |->
                              monthly_table(accounts.val[i], sv.val)],
                          volatility_alerts(folded.data, accounts.val))

\* lines 51-1184: the parts of the rendered document, or the exception
\* raised, and the document as the call leaves it
generate_interactive_html(d, now) ==
    compile_versioned(d, now, detect_schema_version(d), fold_flagged_for_review(d))

----------------------------------------------------------------------------
(* The module-level script: report names, loading, listing, downloads *)

AllowedChars == "ABCDEFGHIJKLMNOPQRSTUVWXYZabcdefghijklmnopqrstuvwxyz0123456789._-"

RECURSIVE underscored(_)
\* lines 1190-1191: every character outside [A-Za-z0-9._-] becomes '_'
underscored(text) ==
    IF text = "" THEN ""
    ELSE (IF Contains(AllowedChars, SubSeq(text, 1, 1)) THEN SubSeq(text, 1, 1) ELSE "_")
         \o underscored(SubSeq(text, 2, Len(text)))

RECURSIVE collapsed(_)
\* line 1192: a run of '_' becomes one '_'
collapsed(text) ==
    IF Len(text) < 2 THEN text
    ELSE IF SubSeq(text, 1, 2) = "__" THEN collapsed(SubSeq(text, 2, Len(text)))
    ELSE SubSeq(text, 1, 1) \o collapsed(SubSeq(text, 2, Len(text)))

\* line 1192: .strip('_') of a text without runs of '_'
stripped(text) ==
    LET a == IF StartsWith(text, "_") THEN SubSeq(text, 2, Len(text)) ELSE text IN
    IF Len(a) > 0 /\ SubSeq(a, Len(a), Len(a)) = "_" THEN SubSeq(a, 1, Len(a) - 1) ELSE a

\* lines 1188-1193
_slugify(text) ==
    IF ~Truthy(text) THEN Ok("report")
    ELSE IF ~IsStr(text) THEN Raise("AttributeError")
    ELSE LET t == stripped(collapsed(underscored(text.v))) IN
         Ok(IF t = "" THEN "report" ELSE t)

\* Path(filename).stem: the name up to its last '.', unless that '.' is the
\* first or the last character
stem(filename) ==
    LET dots == {i \in 1..Len(filename) : SubSeq(filename, i, i) = "."}
        last == IF dots = {} THEN 0 ELSE CHOOSE i \in dots : \A j \in dots : j <= i
    IN  IF 1 < last /\ last < Len(filename) THEN SubSeq(filename, 1, last - 1)
        ELSE filename

\* lines 1195-1204, called with fallback=_slugify(Path(filename).stem)
_report_basename(d, filename) ==
    LET fallback == _slugify(Str(stem(filename)))
        r == IF IsDict(d) THEN Get(d, "report_info", EmptyDict) ELSE EmptyDict
    IN  IF ~IsDict(r) THEN Raise("AttributeError")
        ELSE
        LET company == PyOr(Get(r, "company_name", Null), Str(fallback.val))
            period_end == PyOr(Get(r, "period_end", Null), Str(""))
            declared == Get(r, "schema_version", Null)
            schema_full == IF Truthy(declared) THEN Ok(declared)
                           ELSE LET sv == detect_schema_version(d) IN
                                IF sv.ok THEN Ok(Str(sv.val)) ELSE sv
        IN  IF ~schema_full.ok THEN schema_full
            ELSE LET base == _slugify(company)
                     pe == _slugify(period_end)
                     sf == _slugify(schema_full.val)
                 IN  IF ~base.ok THEN base
                     ELSE IF Truthy(period_end) /\ ~pe.ok THEN pe
                     ELSE IF ~sf.ok THEN sf
                     ELSE Ok(base.val
                             \o (IF Truthy(period_end) THEN "_" \o pe.val ELSE "")
                             \o "_schema_" \o sf.val)

\* the number of digits s starts with
DigitRun(s) ==
    CHOOSE n \in 0..Len(s) :
        /\ \A i \in 1..n : SubSeq(s, i, i) \in Digits
        /\ n < Len(s) => SubSeq(s, n + 1, n + 1) \notin Digits

\* the position of the quote closing the string that s opens, 0 without one
StringEnd(s) ==
    IF \E i \in 2..Len(s) : SubSeq(s, i, i) = "\""
    THEN CHOOSE i \in 2..Len(s) :
             /\ SubSeq(s, i, i) = "\""
             /\ \A j \in 2..(i - 1) : SubSeq(s, j, j) # "\""
    ELSE 0

Parsed(val, rest) == [ok |-> TRUE, val |-> val, rest |-> rest]
NoParse == [ok |-> FALSE]
From(s, i) == SubSeq(s, i, Len(s))

\* json.loads on the texts modelled: null, whole numbers, strings without
\* escapes, arrays and objects, written without white space
RECURSIVE parse_value(_), parse_elements(_, _), parse_members(_, _)
parse_value(s) ==
    IF s = "" THEN NoParse
    ELSE LET c == SubSeq(s, 1, 1) IN
         CASE c = "n" -> IF StartsWith(s, "null") THEN Parsed(Null, From(s, 5)) ELSE NoParse
           [] c \in Digits ->
                LET n == DigitRun(s) IN
                IF n > 1 /\ c = "0" THEN NoParse
                ELSE Parsed(Num(ToNat(SubSeq(s, 1, n))), From(s, n + 1))
           [] c = "\"" ->
                LET e == StringEnd(s) IN
                IF e = 0 THEN NoParse
                ELSE Parsed(Str(SubSeq(s, 2, e - 1)), From(s, e + 1))
           [] c = "[" ->
                IF StartsWith(s, "[]") THEN Parsed(EmptyList, From(s, 3))
                ELSE parse_elements(From(s, 2), << >>)
           [] c = "{" ->
                IF StartsWith(s, "{}") THEN Parsed(EmptyDict, From(s, 3))
                ELSE parse_members(From(s, 2), << >>)
           [] OTHER -> NoParse

parse_elements(s, acc) ==
    LET e == parse_value(s) IN
    IF ~e.ok THEN NoParse
    ELSE IF StartsWith(e.rest, ",") THEN parse_elements(From(e.rest, 2), Append(acc, e.val))
    ELSE IF StartsWith(e.rest, "]") THEN Parsed(List(Append(acc, e.val)), From(e.rest, 2))
    ELSE NoParse

parse_members(s, acc) ==
    LET k == parse_value(s) IN
    IF ~k.ok THEN NoParse
    ELSE IF ~IsStr(k.val) \/ ~StartsWith(k.rest, ":") THEN NoParse
    ELSE LET e == parse_value(From(k.rest, 2)) IN
         IF ~e.ok THEN NoParse
         ELSE IF StartsWith(e.rest, ",")
         THEN parse_members(From(e.rest, 2), Append(acc, <<k.val.v, e.val>>))
         ELSE IF StartsWith(e.rest, "}")
         THEN Parsed(Dict(Append(acc, <<k.val.v, e.val>>)), From(e.rest, 2))
         ELSE NoParse

\* lines 1206-1211 (decoding with errors='replace' never fails)
_load_json_from_upload(uf) ==
    LET v == parse_value(uf.raw) IN
    IF v.ok /\ v.rest = "" THEN Ok(v.val) ELSE Raise("JSONDecodeError")

----------------------------------------------------------------------------
(* The documents the model is run on *)

\* a key that is absent, or present with one of the values of S
Opt(k, S) == {<< >>} \cup {<< <<k, x>> >> : x \in S}

Account(bank, monthly) ==
    Dict(<< <<"bank_name", Str(bank)>>, <<"monthly_summary", List(monthly)>> >>)

mLegacy ==
    Dict(<< <<"month", Str("2024-05")>>, <<"highest", Num(900)>>,
            <<"lowest", Num(100)>> >>)
mIntraday ==
    Dict(<< <<"month_name", Str("Jun 2024")>>, <<"highest_intraday", Num(950)>>,
            <<"lowest_intraday", Num(50)>> >>)

VersionMarkers ==
    {Str(""), Str("4.0"), Str("5.0"), Str("5.1.2"), Str("5"), Str("50"),
     Str("v5.0"), Num(5), Null}

SomeRecurring == Dict(<< <<"assessment", Str("Compliant")>> >>)
SomeNonBank == Dict(<< <<"risk_level", Str("LOW")>> >>)
SomeCounterparties == Dict(<< <<"top_payers", EmptyList>> >>)

\* documents for the classifier: every version marker and shape of
\* report_info, the structural signals, one or two accounts
ClassifyAccounts ==
    LET Monthlies == {<< >>, <<mLegacy>>, <<mIntraday>>, <<mLegacy, mIntraday>>}
        Accs == {Dict(<< <<"bank_name", Str("Alpha")>> >>)}
                    \cup {Account("Alpha", ms) : ms \in Monthlies}
    IN  {EmptyList, Null, List(<<Num(1)>>)}
            \cup {List(<<a>>) : a \in Accs}
            \cup {List(<<a, b>>) : a \in Accs, b \in Accs}

ClassifyDocs ==
    LET RIs == {Dict(p) : p \in Opt("schema_version", VersionMarkers)}
                   \cup {EmptyList, Null}
    IN  {Dict(ri \o rec \o nb \o acc) :
            ri \in Opt("report_info", RIs),
            rec \in Opt("recurring_payments", {EmptyDict, SomeRecurring}),
            nb \in Opt("non_bank_financing", {SomeNonBank}),
            acc \in Opt("accounts", ClassifyAccounts)}

\* documents for the monthly high/low resolvers: the four balance names in
\* every subset and every order
BalanceNames == {"highest", "lowest", "highest_intraday", "lowest_intraday"}

BalanceValue(k) ==
    CASE k = "highest" -> 900
      [] k = "lowest" -> 100
      [] k = "highest_intraday" -> 950
      [] k = "lowest_intraday" -> 50

MonthlyEntries ==
    LET Orders == {o \in UNION {[1..n -> BalanceNames] : n \in 0..4} :
                      \A i, j \in DOMAIN o : i # j => o[i] # o[j]}
    IN  {Dict([i \in DOMAIN o |-> <<o[i], Num(BalanceValue(o[i]))>>]) : o \in Orders}

MonthlyDocs ==
    LET RIs == {Dict(<< <<"schema_version", Str(v)>> >>) : v \in {"4.0", "5.0"}}
        Firsts == {Dict(<< >>), mLegacy, mIntraday}
    IN  {Dict(ri \o << <<"accounts", List(<<Account("Alpha", <<m1, m2>>)>>)>> >>) :
            ri \in Opt("report_info", RIs), m1 \in Firsts, m2 \in MonthlyEntries}

\* documents for the integrity card: any number of checks, any embedded maximum
Check(i) ==
    Dict(<< <<"id", Num(i)>>, <<"status", Str("PASS")>>, <<"points_earned", Num(i)>> >>)

IntegrityDocs ==
    LET RIs == {Dict(<< <<"schema_version", Str(v)>> >>) : v \in {"4.0", "5.0"}}
        Scores == {Dict(pe \o mp \o << <<"checks", List([i \in 1..n |-> Check(i)])>> >>) :
                      pe \in Opt("points_earned", {Num(20), Num(23)}),
                      mp \in Opt("max_points", {Num(23), Num(25), Num(30)}),
                      n \in 0..MaxChecks}
    IN  {Dict(ri \o sc \o rec \o acc) :
            ri \in Opt("report_info", RIs),
            sc \in Opt("integrity_score", Scores),
            rec \in Opt("recurring_payments", {SomeRecurring}),
            acc \in Opt("accounts", {List(<<Account("Alpha", <<mIntraday>>)>>)})}

\* documents for the financing sources: up to MaxSources sources, amounts
\* absent, zero, equal or different
SourceName(i) == SubSeq("ABCDEFGH", i, i)

NonBankDocs ==
    LET Amounts == Opt("total_inflow", {Num(0), Num(100), Num(200)})
        Sources == UNION {[1..n -> Amounts] : n \in 0..MaxSources}
    IN  {Dict(<< <<"non_bank_financing",
                   Dict(<< <<"sources",
                             List([i \in DOMAIN ss |->
                                     Dict(<< <<"source_type", Str(SourceName(i))>> >>
                                          \o ss[i])])>> >>)>> >>) :
            ss \in Sources}

\* documents for the optional sections: each absent, null, empty or supplied
SectionDocs ==
    {Dict(cp \o rec \o nb) :
        cp \in Opt("counterparties", {Null, EmptyDict, SomeCounterparties}),
        rec \in Opt("recurring_payments", {Null, EmptyDict, SomeRecurring}),
        nb \in Opt("non_bank_financing", {Null, EmptyDict, SomeNonBank})}

\* documents for the volatility alerts
VolatilityDocs ==
    LET Firsts == {Dict(mo \o lv \o pc) :
                      mo \in {<< <<"month_name", Str("Jun 2024")>> >>,
                              << <<"month", Str("2024-06")>> >>},
                      lv \in Opt("volatility_level",
                                 {Str("LOW"), Str("MODERATE"), Str("HIGH"), Str("EXTREME")}),
                      pc \in Opt("volatility_pct", {Num(150)})}
        Seconds == {Dict(<< <<"month_name", Str("Jul 2024")>>,
                            <<"volatility_level", Str(l)>>,
                            <<"volatility_pct", Num(210)>> >>) :
                       l \in {"LOW", "HIGH", "EXTREME"}}
        Accs == {<<Account("Alpha", <<m1>>)>> : m1 \in Firsts}
                    \cup {<<Account("Alpha", <<m1, m2>>)>> : m1 \in Firsts, m2 \in Seconds}
                    \cup {<<Account("Alpha", <<m1>>), Account("Beta", <<m2>>)>> :
                             m1 \in Firsts, m2 \in Seconds}
        Vols == {EmptyDict, Dict(<< <<"alerts", EmptyList>> >>),
                 Dict(<< <<"alerts", List(<<Str("Custom alert")>>)>> >>)}
    IN  {Dict(vol \o << <<"accounts", List(acc)>> >>) :
            vol \in Opt("volatility", Vols), acc \in Accs}

\* documents for the round-figure flag
Txn(i) == Dict(<< <<"date", Str("2024-06-01")>>, <<"amount", Num(1000 * i)>> >>)
FullTxn ==
    Dict(<< <<"date", Str("2024-06-02")>>, <<"description", Str("TRANSFER")>>,
            <<"type", Str("DEBIT")>>, <<"amount", Num(5000)>>,
            <<"account", Str("123")>>, <<"counterparty", Str("Bo")>>,
            <<"flag_reason", Str("round")>>, <<"balance", Num(1)>> >>)
TxnList(n) == List([i \in 1..n |-> Txn(i)])

RoundDocs ==
    LET Lists == {TxnList(n) : n \in {0, 1, 10, MaxTxns}}
        Rfts == {Dict(c \o al \o top \o tr) :
                    c \in Opt("count", {Num(0), Num(5), Num(10), Num(12)}),
                    al \in Opt("all_transactions", Lists),
                    top \in Opt("top_10_transactions", Lists),
                    tr \in Opt("transactions", {TxnList(2)})}
        Flags == {EmptyDict} \cup {Dict(<< <<"round_figure_transactions", r>> >>) : r \in Rfts}
        Reviews == {EmptyDict,
                    Dict(<< <<"all_items", TxnList(MaxTxns)>> >>),
                    Dict(<< <<"count", Num(12)>>, <<"top_10_items", TxnList(10)>> >>),
                    Dict(<< <<"count", Num(12)>>,
                            <<"all_items", List(<<Txn(1), Num(7)>>)>> >>),
                    Dict(<< <<"all_items", EmptyList>>,
                            <<"top_10_items", List(<<FullTxn, Str("x"), Txn(2)>>)>>,
                            <<"total_amount", Num(7500)>>,
                            <<"note", Str("review")>> >>)}
    IN  {Dict(fl \o rv) :
            fl \in Opt("flags", Flags), rv \in Opt("flagged_for_review", Reviews)}

\* documents for the interpolated texts: one text field at a time, plain or
\* holding markup characters, with and without a supplied generation time
Texts == {"Acme", "<script>alert(1)</script>", "A & B \"Co\""}

TextDocs ==
    LET Carriers(t) ==
            {<< <<"company_name", Str(t)>> >>} \cup
            {<< >>}
        Bodies(t) ==
            {<< >>,
             << <<"accounts", List(<<Dict(<< <<"bank_name", Str(t)>>,
                                             <<"account_number", Str("123")>> >>)>>)>> >>,
             << <<"accounts", List(<<Dict(<< <<"bank_name", Str("Alpha")>>,
                                             <<"account_number", Str(t)>> >>)>>)>> >>,
             << <<"categories", Dict(<< <<"credits",
                   List(<<Dict(<< <<"category", Str(t)>>, <<"amount", Num(100)>>,
                                  <<"percentage", Num(100)>> >>)>>)>> >>)>> >>,
             << <<"observations", Dict(<< <<"positive", List(<<Str(t)>>)>> >>)>> >>,
             << <<"observations", Dict(<< <<"concerns", List(<<Str(t)>>)>> >>)>> >>,
             << <<"recommendations",
                  List(<<Dict(<< <<"priority", Str("HIGH")>>,
                                 <<"category", Str("Cash")>>,
                                 <<"recommendation", Str(t)>> >>)>>)>> >>,
             << <<"volatility", Dict(<< <<"alerts", List(<<Str(t)>>)>> >>)>> >>}
    IN  {Dict(<< <<"report_info", Dict(c \o g)>> >> \o b) :
            c \in UNION {Carriers(t) : t \in Texts},
            g \in Opt("generated_at", {Str("2024-07-01T08:00:00")}),
            b \in UNION {Bodies(t) : t \in Texts}}

\* documents for absence: each top-level section absent or supplied, for the
\* subsets of at most MaxAbsent supplied and of at most MaxAbsent absent sections
SectionSamples ==
    << <<"report_info",
         Dict(<< <<"company_name", Str("Acme")>>, <<"period_start", Str("2024-01-01")>>,
                 <<"period_end", Str("2024-06-30")>>, <<"total_months", Num(6)>>,
                 <<"generated_at", Str("2024-07-01T08:00:00")>>,
                 <<"related_parties", List(<<Str("Ali")>>)>> >>)>>,
       <<"accounts",
         List(<<Dict(<< <<"bank_name", Str("Alpha")>>, <<"account_number", Str("123")>>,
                        <<"transaction_count", Num(5)>>,
                        <<"monthly_summary", List(<<mLegacy>>)>> >>)>>)>>,
       <<"consolidated",
         Dict(<< <<"gross", Dict(<< <<"total_credits", Num(100)>> >>)>>,
                 <<"exclusions",
                   Dict(<< <<"credits", Dict(<< <<"related_party", Num(40)>> >>)>> >>)>> >>)>>,
       <<"categories",
         Dict(<< <<"credits", List(<<Dict(<< <<"category", Str("Sales")>>,
                                             <<"amount", Num(100)>>,
                                             <<"percentage", Num(100)>> >>)>>)>> >>)>>,
       <<"volatility",
         Dict(<< <<"overall_index", Num(40)>>, <<"overall_level", Str("MODERATE")>> >>)>>,
       <<"flags",
         Dict(<< <<"returned_cheques",
                   Dict(<< <<"count", Num(1)>>, <<"assessment", Str("OK")>> >>)>> >>)>>,
       <<"flagged_for_review", Dict(<< <<"all_items", List(<<Txn(1)>>)>> >>)>>,
       <<"kite_flying",
         Dict(<< <<"risk_score", Num(3)>>, <<"risk_level", Str("MEDIUM")>> >>)>>,
       <<"integrity_score",
         Dict(<< <<"score", Num(80)>>, <<"rating", Str("GOOD")>>,
                 <<"points_earned", Num(20)>> >>)>>,
       <<"observations", Dict(<< <<"positive", List(<<Str("Stable")>>)>> >>)>>,
       <<"recommendations",
         List(<<Dict(<< <<"priority", Str("HIGH")>>, <<"category", Str("Cash")>>,
                        <<"recommendation", Str("Review")>> >>)>>)>>,
       <<"recurring_payments", SomeRecurring>>,
       <<"non_bank_financing", SomeNonBank>>,
       <<"counterparties", SomeCounterparties>>,
       <<"inter_account_transfers", Dict(<< <<"detected_count", Num(0)>> >>)>> >>

RECURSIVE SectionsFrom(_, _)
SectionsFrom(i, S) ==
    IF i > Len(SectionSamples) THEN << >>
    ELSE (IF i \in S THEN <<SectionSamples[i]>> ELSE << >>) \o SectionsFrom(i + 1, S)

AbsenceDocs ==
    {Dict(SectionsFrom(1, S)) :
        S \in {T \in SUBSET (1..Len(SectionSamples)) :
                  \/ Cardinality(T) <= MaxAbsent
                  \/ Cardinality(T) >= Len(SectionSamples) - MaxAbsent}}

\* documents with a nested field of an unexpected type
MistypedDocs ==
    {Dict(<< <<"accounts", Null>> >>),
     Dict(<< <<"report_info", EmptyList>> >>),
     Dict(<< <<"accounts", List(<<Account("Alpha",
                 <<Dict(<< <<"month", Str("2024-05")>>, <<"highest", Null>> >>)>>)>>)>> >>),
     Dict(<< <<"accounts", List(<<Dict(<< <<"total_credits", Str("12")>> >>)>>)>> >>),
     Dict(<< <<"accounts", List(<<Num(7)>>)>> >>),
     Dict(<< <<"integrity_score", Dict(<< <<"score", Str("80")>> >>)>> >>),
     Dict(<< <<"consolidated", Null>> >>),
     Dict(<< <<"flags", Null>> >>),
     Dict(<< <<"recommendations", List(<<Str("Review")>>)>> >>),
     Dict(<< <<"recurring_payments", Null>> >>),
     Dict(<< <<"report_info", Dict(<< <<"related_parties", Null>> >>)>> >>)}

\* documents for the exclusion amounts: each in its legacy form, its current
\* form, or another shape
ExclusionForms ==
    {Num(500), Dict(<< <<"total", Num(300)>> >>),
     Dict(<< <<"count", Num(2)>> >>), Str("n/a"), Null}

ExclusionDocs ==
    {Dict(<< <<"consolidated", Dict(<< <<"exclusions", Dict(cr \o dr)>> >>)>> >>) :
        cr \in Opt("credits",
                   {Dict(rp \o ia) : rp \in Opt("related_party", ExclusionForms),
                                     ia \in Opt("inter_account", ExclusionForms)}),
        dr \in Opt("debits",
                   {Dict(rp \o rc) :
                       rp \in Opt("related_party",
                                  {Num(200), Dict(<< <<"total", Num(100)>> >>)}),
                       rc \in Opt("returned_cheque", {Dict(<< <<"total", Num(70)>> >>)})})}

\* documents for the declared related parties: up to MaxParties entries, each
\* a bare string or an object
PartyForms ==
    {Str("Ali"), Dict(<< <<"name", Str("Bo")>> >>),
     Dict(<< <<"name", Str("Cy")>>, <<"relationship", Str("Director")>> >>)}

RelatedDocs ==
    {Dict(<< <<"report_info", Dict(rp)>> >>) :
        rp \in Opt("related_parties",
                   {List(ps) : ps \in UNION {[1..n -> PartyForms] : n \in 0..MaxParties}})}

Payment(type, found) ==
    Dict(<< <<"type", Str(type)>>, <<"expected_count", Num(12)>>,
            <<"found_count", Num(found)>>, <<"status", Str("OK")>> >>)

\* documents for the recurring payments: each of the three lists absent, empty
\* or holding one payment; the sub-object of two payment types absent, empty
\* or supplied under the lower-case or the upper-case key; the month count
\* absent or supplied
RecurringDocs ==
    LET Epf == Opt("epf_kwsp",
                   {EmptyDict,
                    Dict(<< <<"found", Num(3)>> >>),
                    Dict(<< <<"expected", Num(6)>>, <<"count", Num(2)>>,
                            <<"missing_months", List(<<Str("Jan"), Str("Feb")>>)>>,
                            <<"status", Str("MISSING")>> >>)})
        Rent == Opt("RENT", {Dict(<< <<"status", Str("PASS")>> >>)})
    IN  {Dict(<< <<"report_info", Dict(tm)>>,
                 <<"recurring_payments", Dict(a \o b \o c \o e \o rent)>> >>) :
            tm \in Opt("total_months", {Num(12)}),
            a \in Opt("payments", {EmptyList, List(<<Payment("EPF", 12)>>)}),
            b \in Opt("statutory_payments", {EmptyList, List(<<Payment("SOCSO", 11)>>)}),
            c \in Opt("payment_types", {EmptyList, List(<<Payment("TAX", 10)>>)}),
            e \in Epf,
            rent \in Rent}

\* assessments of the recurring payments, as text and as objects
Assessments ==
    {Str("Some statutory payments missing"), Str("Statutory obligations appear to be met"),
     Str("Payments not met"), Str("Alert"), Str("Compliant"), Str("Non-compliant"),
     Str("Under review"), Str("ok"), Str(""), Null, EmptyDict,
     Dict(<< <<"statutory_compliance", Str("PARTIAL")>>, <<"risk_level", Str("HIGH")>> >>),
     Dict(<< <<"compliance", Str("ALERT")>> >>),
     Dict(<< <<"risk_level", Str("MODERATE")>> >>)}

\* documents for the compliance label: the section with each assessment
ComplianceDocs ==
    {Dict(<< <<"recurring_payments",
               Dict(<< <<"alerts", List(<<Str("EPF missing in Jan")>>)>> >> \o as)>> >>) :
        as \in Opt("assessment", Assessments)}

\* documents for the non-bank risk level and summary: the top-level risk
\* level absent or supplied, the assessment absent, a text, or an object with
\* or without a risk level and a summary
NonBankRiskDocs ==
    {Dict(<< <<"non_bank_financing",
               Dict(<< <<"sources", EmptyList>> >> \o top \o as)>> >>) :
        top \in Opt("risk_level", {Str("HIGH")}),
        as \in Opt("assessment",
                   {Str("Heavy reliance on lenders"), Str(""), Null} \cup
                   {Dict(rl \o sm) :
                       rl \in Opt("risk_level", {Str("MODERATE")}),
                       sm \in Opt("summary", {Str("Two lenders"), Str("")})})}

Transfer(date, amount) ==
    Dict(<< <<"date", Str(date)>>, <<"from_account", Str("1234567890")>>,
            <<"credit_account", Str("4321")>>, <<"amount", Num(amount)>> >>)

\* documents for the inter-account transfers: the lists of the matched
\* transfers and the legacy list, the counts and the totals of the summary
\* and of the legacy keys, each absent or supplied
InterAccountDocs ==
    LET Matched ==
            {Dict(al \o top) :
                al \in Opt("all_transfers",
                           {List(<<Transfer("2024-05-01", 100),
                                   Transfer("2024-05-02", 250)>>)}),
                top \in Opt("top_10_transfers", {List(<<Transfer("2024-05-02", 250)>>)})}
        Summary ==
            {Dict(tc \o ta) :
                tc \in Opt("total_count", {Num(7)}),
                ta \in Opt("total_amount", {Num(900)})}
    IN  {Dict(<< <<"inter_account_transfers", Dict(m \o tr \o sm \o dc \o ta)>> >>) :
            m \in Opt("matched_transfers", Matched),
            tr \in Opt("transfers", {List(<<Transfer("2024-04-30", 40)>>)}),
            sm \in Opt("summary", Summary),
            dc \in Opt("detected_count", {Num(5)}),
            ta \in Opt("total_amount", {Num(500)})}

IndicatorTexts == <<"Circular transfers seen", "Month-end spike", "Round amounts">>
FindingTexts == <<"A to B to A, 3 times", "Last 2 days of May">>

\* documents for the kite-flying indicators: none, up to three texts or two
\* objects; up to two detailed findings; the risk score absent, 0 or 3; a
\* round-figure count of 0, 5 or 6
KiteDocs ==
    LET Indicators ==
            Opt("indicators",
                {List(SubSeq([i \in 1..3 |-> Str(IndicatorTexts[i])], 1, n)) : n \in 0..3}
                \cup
                {List(<<Dict(<< <<"indicator", Str("Circular Transfers")>>,
                                <<"status", Str("MONITOR")>>, <<"points", Num(3)>>,
                                <<"finding", Str("2 loops")>> >>),
                        Dict(<< <<"indicator", Str("Vague Descriptions")>> >>)>>)})
        Findings ==
            Opt("detailed_findings",
                {List(SubSeq([i \in 1..2 |-> Str(FindingTexts[i])], 1, n)) : n \in 0..2})
    IN  {Dict(<< <<"kite_flying", Dict(ind \o fnd \o sc)>> >> \o fl) :
            ind \in Indicators,
            fnd \in Findings,
            sc \in Opt("risk_score", {Num(0), Num(3)}),
            fl \in Opt("flags",
                       {Dict(<< <<"round_figure_transactions",
                                  Dict(<< <<"count", Num(n)>> >>)>> >>) : n \in {5, 6}})}

MaxMonths == 2

\* documents for the chart labels: a period starting in 2024 or in 2025 or
\* without a start; one account with up to MaxMonths monthly entries, whose
\* month is absent, a year and month in or out of the period's year, a month
\* number of 0, of 13 or not a number, or a plain name, with or without a
\* month name
ChartDocs ==
    LET Entries ==
            {Dict(mo \o mn) :
                mo \in Opt("month", {Str("2024-12"), Str("2025-01"), Str("2025-00"),
                                     Str("2025-13"), Str("2025-xx"), Str("May")}),
                mn \in Opt("month_name", {Str("January 2025")})}
            \cup {Dict(<< <<"month", Str("2024-11")>>, <<"volatility_pct", Num(40)>> >>)}
    IN  {Dict(<< <<"report_info", Dict(ps)>>,
                 <<"accounts", List(<<Account("Alpha", ms)>>)>> >>) :
            ps \in Opt("period_start", {Str("2024-11-01"), Str("2025-01-01")}),
            ms \in UNION {[1..n -> Entries] : n \in 1..MaxMonths}}

Documents ==
    ClassifyDocs \cup MonthlyDocs \cup IntegrityDocs \cup NonBankDocs
        \cup SectionDocs \cup VolatilityDocs \cup RoundDocs
        \cup TextDocs \cup AbsenceDocs \cup MistypedDocs \cup ExclusionDocs
        \cup RelatedDocs \cup RecurringDocs \cup ComplianceDocs
        \cup NonBankRiskDocs \cup InterAccountDocs \cup KiteDocs
        \cup ChartDocs

----------------------------------------------------------------------------
(* The state machine *)

NotRun == [pending |-> TRUE]

\* datetime.now().isoformat() at the moments a report may be generated
Clock == {"2024-07-01T09:30:00.000001", "2024-07-01T09:30:07.250000"}

\* no report is open in a browser
PageIdle ==
    /\ active_tabs = {}
    /\ active_navs = {}
    /\ last_tab = ""

\* no script run is under way
ScriptIdle ==
    /\ uploaded_files = << >>
    /\ session_payload = << >>
    /\ use_session = FALSE
    /\ parsed = << >>
    /\ errors = << >>
    /\ stage = "idle"
    /\ listed = << >>
    /\ preview = NotRun
    /\ downloads = << >>
    /\ html_files = << >>
    /\ json_files = << >>

Init ==
    /\ input \in Documents
    /\ data = input
    /\ version = NotRun
    /\ out = NotRun
    /\ prev = NotRun
    /\ runs = 0
    /\ ScriptIdle
    /\ PageIdle

\* lines 1275, 1285: detect_schema_version(data) at module level
Detect ==
    /\ version' = detect_schema_version(data)
    /\ UNCHANGED <<input, data, out, prev, runs>>
    /\ UNCHANGED script_vars
    /\ UNCHANGED page_vars

\* lines 1301, 1352, 1368: generate_interactive_html(data), at some moment
\* of the wall clock
Generate ==
    /\ runs < MaxRuns
    /\ \E now \in Clock :
       \E g \in {generate_interactive_html(data, now)} :
          /\ out' = g.res
          /\ data' = g.data
    /\ prev' = out
    /\ runs' = runs + 1
    /\ UNCHANGED <<input, version>>
    /\ UNCHANGED script_vars
    /\ UNCHANGED page_vars

Next == Detect \/ Generate

Spec == Init /\ [][Next]_vars

----------------------------------------------------------------------------
(* The state machine of one run of the module-level script *)

\* variant: the error recorded does not name the file
load_upload_unnamed(uf, p, e) ==
    LET d == _load_json_from_upload(uf) IN
    IF d.ok THEN [parsed |-> Append(p, <<uf.name, d.val>>), errors |-> e]
    ELSE [parsed |-> p, errors |-> Append(e, d.exc)]

\* lines 1253-1257: one turn of the upload loop; the text of the exception
\* is stood for by the name of its class
load_upload(uf, p, e) ==
    LET d == _load_json_from_upload(uf) IN
    IF d.ok THEN [parsed |-> Append(p, <<uf.name, d.val>>), errors |-> e]
    ELSE [parsed |-> p, errors |-> Append(e, uf.name \o ": " \o d.exc)]

Tuple(a, b) == [t |-> "tuple", v |-> <<a, b>>]
IsTuple(x) == x.t = "tuple"

\* lines 1236-1242: one turn of the session payload loop
load_session(idx, item, p, e) ==
    IF IsTuple(item) /\ IsDict(item.v[2])
    THEN [parsed |-> Append(p, <<PyStr(item.v[1]), item.v[2]>>), errors |-> e]
    ELSE IF IsDict(item)
    THEN [parsed |-> Append(p, <<"analysis_" \o ToString(idx) \o ".json", item>>),
          errors |-> e]
    ELSE [parsed |-> p,
          errors |-> Append(e, "session_payload[" \o ToString(idx)
                               \o "] is not a dict/tuple")]

\* str.strip() of a text whose white space is blanks
RECURSIVE strip(_)
strip(text) ==
    IF StartsWith(text, " ") THEN strip(From(text, 2))
    ELSE IF Len(text) > 0 /\ SubSeq(text, Len(text), Len(text)) = " "
    THEN strip(SubSeq(text, 1, Len(text) - 1))
    ELSE text

\* lines 1273-1277: the line written for one loaded document
summary_line(name, d) ==
    LET r == IF IsDict(d) THEN Get(d, "report_info", EmptyDict) ELSE EmptyDict IN
    IF ~IsDict(r) THEN Raise("AttributeError")
    ELSE LET sv == detect_schema_version(d) IN
         IF ~sv.ok THEN sv
         ELSE Ok([company |-> PyStr(Get(r, "company_name", Str("Unknown"))),
                  name |-> name,
                  schema_full |-> PyStr(Get(r, "schema_version", Str(sv.val))),
                  period |-> strip(PyStr(Get(r, "period_start", Str("")))
                                   \o " → "
                                   \o PyStr(Get(r, "period_end", Str(""))))])

\* lines 1272-1277: the lines written until one raises
RECURSIVE summary_lines(_, _)
summary_lines(p, acc) ==
    IF p = << >> THEN [lines |-> acc, ok |-> TRUE]
    ELSE LET l == summary_line(p[1][1], p[1][2]) IN
         IF l.ok THEN summary_lines(Tail(p), Append(acc, l.val))
         ELSE [lines |-> acc, ok |-> FALSE]

Button(file, content) == [file |-> file, content |-> content]

\* lines 1307-1326: the quick preview of the single document
quick_preview(d, company) ==
    LET r == Get(d, "report_info", EmptyDict)
        integrity == Get(d, "integrity_score", EmptyDict)
        kite == Get(d, "kite_flying", EmptyDict)
        volatility == Get(d, "volatility", EmptyDict)
        flags == Get(d, "flags", EmptyDict)
        accounts == Get(d, "accounts", EmptyList)
    IN  IF ~IsDict(r) \/ ~IsDict(integrity) \/ ~IsDict(kite) \/ ~IsDict(volatility)
        THEN Raise("AttributeError")
        ELSE IF ~IsNum(Get(volatility, "overall_index", Num(0)))
        THEN Raise(IF IsStr(Get(volatility, "overall_index", Num(0)))
                   THEN "ValueError" ELSE "TypeError")
        ELSE IF ~IsDict(flags) THEN Raise("AttributeError")
        ELSE IF ~IsDict(Get(flags, "round_figure_transactions", EmptyDict))
        THEN Raise("AttributeError")
        ELSE IF ~Iter(accounts).ok THEN Raise("TypeError")
        ELSE IF ~AllDicts(Iter(accounts).val) THEN Raise("AttributeError")
        ELSE IF \E i \in 1..Len(Iter(accounts).val) :
                   ~NumFields(Iter(accounts).val[i],
                              {"total_credits", "total_debits", "closing_balance"})
        THEN Raise("TypeError")
        ELSE Ok([company |-> company,
                 period_start |-> PyStr(Get(r, "period_start", Str(""))),
                 period_end |-> PyStr(Get(r, "period_end", Str(""))),
                 total_months |-> PyStr(Get(r, "total_months", Num(0))),
                 integrity |-> PyStr(Get(integrity, "score", Num(0))) \o "%",
                 kite |-> Get(kite, "risk_score", Num(0)),
                 volatility |-> ToString(Get(volatility, "overall_index", Num(0)).v) \o "%",
                 round_figures |-> Get(Get(flags, "round_figure_transactions", EmptyDict),
                                       "count", Num(0)),
                 accounts |-> [i \in 1..Len(Iter(accounts).val) |->
                                  account_card(Iter(accounts).val[i])]])

\* lines 1285-1287 and 1333-1336: what is computed before the buttons of a
\* document; the schema version is detected whatever the document declares
\* (1285, 1335)
report_base(filename, d) ==
    IF ~IsDict(d) THEN Raise("AttributeError")
    ELSE IF ~IsDict(Get(d, "report_info", EmptyDict)) THEN Raise("AttributeError")
    ELSE LET sv == detect_schema_version(d) IN
         IF ~sv.ok THEN sv ELSE _report_basename(d, filename)

----------------------------------------------------------------------------
(* The batches the script is run on *)

Blanks == "                                                            "

\* the white space opening a line nested level deep, with indent=2
Indent(level) == SubSeq(Blanks, 1, 2 * level)

\* json.dumps(x, indent=2), x being nested level deep: on the documents
\* modelled, whose texts hold no quote, backslash or character outside ASCII
RECURSIVE json_dumps(_, _)
json_dumps(x, level) ==
    CASE x.t = "null" -> "null"
      [] x.t = "num" -> ToString(x.v)
      [] x.t = "str" -> "\"" \o x.v \o "\""
      [] x.t = "list" ->
           IF x.v = << >> THEN "[]"
           ELSE "[\n"
                \o Join([i \in 1..Len(x.v) |->
                            Indent(level + 1) \o json_dumps(x.v[i], level + 1)], ",\n")
                \o "\n" \o Indent(level) \o "]"
      [] x.t = "dict" ->
           IF x.v = << >> THEN "{}"
           ELSE "{\n"
                \o Join([i \in 1..Len(x.v) |->
                            Indent(level + 1) \o "\"" \o x.v[i][1] \o "\": "
                            \o json_dumps(x.v[i][2], level + 1)], ",\n")
                \o "\n" \o Indent(level) \o "}"

EmptyText == "{}"
AcmeText ==
    "{\"report_info\":{\"company_name\":\"Acme Co\",\"period_end\":\"2024-06-30\",\"generated_at\":\"2024-07-01\"}}"
NullAccountsText == "{\"accounts\":null}"
ArrayText == "[1]"
ScalarText == "7"
TruncatedText == "{\"accounts\":["
VolatileText ==
    "{\"volatility\":{\"alerts\":[]},\"accounts\":[{\"bank_name\":\"Alpha\",\"monthly_summary\":[{\"month_name\":\"May 2024\",\"volatility_level\":\"HIGH\",\"volatility_pct\":150}]}]}"
ProseText == "not json"

RawTexts ==
    {EmptyText, AcmeText, NullAccountsText, ArrayText, ScalarText,
     TruncatedText, ProseText, VolatileText}

FileNames == <<"first.json", "second report.json", "third.json", "fourth.json">>

Uploads ==
    UNION {[1..n -> RawTexts] : n \in 0..MaxFiles}

UploadedFiles(texts) ==
    [i \in 1..Len(texts) |-> [name |-> FileNames[i], raw |-> texts[i]]]

AcmeDoc == parse_value(AcmeText).val

SessionItems ==
    {EmptyDict, AcmeDoc, Tuple(Str("part1.json"), AcmeDoc), Tuple(Num(7), EmptyDict),
     Tuple(Str("part1.json"), List(<<Num(1)>>)), List(<<Num(1)>>), Str("text")}

SessionPayloads ==
    UNION {[1..n -> SessionItems] : n \in 1..(MaxFiles - 1)}

CompilerIdle ==
    /\ input = EmptyDict
    /\ data = EmptyDict
    /\ version = NotRun
    /\ out = NotRun
    /\ prev = NotRun
    /\ runs = 0

\* lines 1227-1233, 1244: the script starts with the files uploaded, or with the payload
\* another page left in the session and the checkbox ticked or not (1233)
BatchInit ==
    /\ CompilerIdle
    /\ PageIdle
    /\ \/ /\ session_payload = << >>
          /\ use_session = FALSE
          /\ \E texts \in Uploads : uploaded_files = UploadedFiles(texts)
       \/ /\ session_payload \in SessionPayloads
          /\ use_session \in BOOLEAN
          /\ uploaded_files = << >>
    /\ parsed = << >>
    /\ errors = << >>
    /\ stage = "load"
    /\ listed = << >>
    /\ preview = NotRun
    /\ downloads = << >>
    /\ html_files = << >>
    /\ json_files = << >>

\* the number of inputs the loading loop has gone through
Loaded == Len(parsed) + Len(errors)

\* lines 1249-1251: nothing uploaded, the script stops
NoUploads ==
    /\ stage = "load"
    /\ ~use_session
    /\ uploaded_files = << >>
    /\ stage' = "stopped"
    /\ UNCHANGED <<uploaded_files, session_payload, use_session, parsed, errors,
                   listed, preview, downloads, html_files, json_files>>
    /\ UNCHANGED compiler_vars
    /\ UNCHANGED page_vars

\* lines 1252-1257: one turn of the upload loop
LoadUpload ==
    /\ stage = "load"
    /\ ~use_session
    /\ Loaded < Len(uploaded_files)
    /\ LET l == load_upload(uploaded_files[Loaded + 1], parsed, errors) IN
          /\ parsed' = l.parsed
          /\ errors' = l.errors
    /\ UNCHANGED <<uploaded_files, session_payload, use_session, stage,
                   listed, preview, downloads, html_files, json_files>>
    /\ UNCHANGED compiler_vars
    /\ UNCHANGED page_vars

\* lines 1235-1242: one turn of the session payload loop
LoadSession ==
    /\ stage = "load"
    /\ use_session
    /\ Loaded < Len(session_payload)
    /\ LET l == load_session(Loaded + 1, session_payload[Loaded + 1], parsed, errors) IN
          /\ parsed' = l.parsed
          /\ errors' = l.errors
    /\ UNCHANGED <<uploaded_files, session_payload, use_session, stage,
                   listed, preview, downloads, html_files, json_files>>
    /\ UNCHANGED compiler_vars
    /\ UNCHANGED page_vars

\* lines 1259-1267: the errors are shown; without a loaded document the
\* script stops
LoadingDone ==
    /\ stage = "load"
    /\ IF use_session THEN Loaded = Len(session_payload)
       ELSE uploaded_files # << >> /\ Loaded = Len(uploaded_files)
    /\ stage' = IF parsed = << >> THEN "stopped" ELSE "summary"
    /\ UNCHANGED <<uploaded_files, session_payload, use_session, parsed, errors,
                   listed, preview, downloads, html_files, json_files>>
    /\ UNCHANGED compiler_vars
    /\ UNCHANGED page_vars

\* lines 1271-1277: the list of loaded files; an exception ends the run
FileSummary ==
    /\ stage = "summary"
    /\ LET l == summary_lines(parsed, << >>) IN
          /\ listed' = l.lines
          /\ stage' = IF l.ok THEN "downloads" ELSE "crashed"
    /\ UNCHANGED <<uploaded_files, session_payload, use_session, parsed, errors,
                   preview, downloads, html_files, json_files>>
    /\ UNCHANGED compiler_vars
    /\ UNCHANGED page_vars

\* generate_interactive_html(d) at the moments the clock may show
Compiled(d) == {generate_interactive_html(d, now) : now \in Clock}

\* lines 1283-1326: the buttons and the preview of a single document
DownloadSingle ==
    /\ stage = "downloads"
    /\ Len(parsed) = 1
    /\ \E base \in {report_base(parsed[1][1], parsed[1][2])} :
          IF ~base.ok
          THEN /\ stage' = "crashed"
               /\ UNCHANGED <<parsed, downloads, preview>>
          ELSE \E g \in Compiled(parsed[1][2]) :
               \E p \in {quick_preview(g.data,
                                       PyStr(Get(Get(parsed[1][2], "report_info", EmptyDict),
                                                 "company_name", Str("Unknown"))))} :
                  /\ parsed' = <<<<parsed[1][1], g.data>>>>
                  /\ IF ~g.res.ok
                     THEN /\ downloads' = <<Button(base.val \o ".json",
                                                   json_dumps(parsed[1][2], 0))>>
                          /\ preview' = preview
                          /\ stage' = "crashed"
                     ELSE /\ downloads' = <<Button(base.val \o ".json",
                                                   json_dumps(parsed[1][2], 0)),
                                            Button(base.val \o ".html", g.res.val)>>
                          /\ preview' = IF p.ok THEN p.val ELSE preview
                          /\ stage' = IF p.ok THEN "rendered" ELSE "crashed"
    /\ UNCHANGED <<uploaded_files, session_payload, use_session, errors, listed,
                   html_files, json_files>>
    /\ UNCHANGED compiler_vars
    /\ UNCHANGED page_vars

\* the documents whose buttons are rendered: each gives two buttons, or one
\* when its report raised
Rendered == (Len(downloads) + 1) \div 2

\* lines 1332-1357: the buttons of one document of several; after the last
\* of them the batch button is shown (1359-1363)
DownloadEach ==
    /\ stage = "downloads"
    /\ Len(parsed) > 1
    /\ Rendered < Len(parsed)
    /\ \E idx \in {Rendered + 1} :
       \E base \in {report_base(parsed[idx][1], parsed[idx][2])} :
          IF ~base.ok
          THEN /\ stage' = "crashed"
               /\ UNCHANGED <<parsed, downloads>>
          ELSE \E g \in Compiled(parsed[idx][2]) :
                  /\ parsed' = [parsed EXCEPT ![idx] = <<parsed[idx][1], g.data>>]
                  /\ IF ~g.res.ok
                     THEN /\ downloads' = Append(downloads,
                                                 Button(base.val \o ".json",
                                                        json_dumps(parsed[idx][2], 0)))
                          /\ stage' = "crashed"
                     ELSE /\ downloads' = downloads
                                  \o <<Button(base.val \o ".json",
                                              json_dumps(parsed[idx][2], 0)),
                                       Button(base.val \o ".html", g.res.val)>>
                          /\ stage' = IF idx = Len(parsed) THEN "buttons" ELSE stage
    /\ UNCHANGED <<uploaded_files, session_payload, use_session, errors, listed,
                   preview, html_files, json_files>>
    /\ UNCHANGED compiler_vars
    /\ UNCHANGED page_vars

\* lines 1363-1391: 'Prepare ZIP files' is clicked; one turn of its loop,
\* the archives being stored in the session after the last turn and their
\* two download buttons shown
PrepareZip ==
    /\ stage \in {"buttons", "zipping"}
    /\ Len(html_files) < Len(parsed)
    /\ \E idx \in {Len(html_files) + 1} :
       \E base \in {_report_basename(parsed[idx][2], parsed[idx][1])} :
          IF ~base.ok
          THEN /\ stage' = "crashed"
               /\ UNCHANGED <<parsed, html_files, json_files, downloads>>
          ELSE \E g \in Compiled(parsed[idx][2]) :
                  /\ parsed' = [parsed EXCEPT ![idx] = <<parsed[idx][1], g.data>>]
                  /\ IF ~g.res.ok
                     THEN /\ stage' = "crashed"
                          /\ UNCHANGED <<html_files, json_files, downloads>>
                     ELSE /\ html_files' = Append(html_files,
                                                  Button(base.val \o ".html", g.res.val))
                          /\ json_files' = Append(json_files,
                                                  Button(base.val \o ".json",
                                                         json_dumps(g.data, 0)))
                          /\ stage' = IF idx = Len(parsed) THEN "zipped" ELSE "zipping"
                          /\ downloads' =
                                IF idx < Len(parsed) THEN downloads
                                ELSE downloads
                                     \o <<Button("bank_reports_html.zip", html_files'),
                                          Button("bank_reports_json.zip", json_files')>>
    /\ UNCHANGED <<uploaded_files, session_payload, use_session, errors, listed,
                   preview>>
    /\ UNCHANGED compiler_vars
    /\ UNCHANGED page_vars

BatchNext ==
    \/ NoUploads
    \/ LoadUpload
    \/ LoadSession
    \/ LoadingDone
    \/ FileSummary
    \/ DownloadSingle
    \/ DownloadEach
    \/ PrepareZip

BatchSpec == BatchInit /\ [][BatchNext]_vars

----------------------------------------------------------------------------
(* Properties *)

Detected == version # NotRun
Generated == out # NotRun /\ out.ok

\* the value stored under key k of object o
Field(o, k) == LET i == CHOOSE i \in 1..Len(o.v) : o.v[i][1] = k IN o.v[i][2]

Present(o, k) == \E i \in 1..Len(o.v) : o.v[i][1] = k

\* key k of d holds a non-empty object
Supplied(d, k) == Present(d, k) /\ Field(d, k).t = "dict" /\ Field(d, k).v # << >>

InSeq(x, xs) == \E i \in 1..Len(xs) : xs[i] = x

\* the accounts of d and the monthly entries of an account, when listed
AccountsOf(d) ==
    IF Present(d, "accounts") /\ Field(d, "accounts").t = "list"
    THEN Field(d, "accounts").v ELSE << >>

MonthsOf(a) ==
    IF Present(a, "monthly_summary") /\ Field(a, "monthly_summary").t = "list"
    THEN Field(a, "monthly_summary").v ELSE << >>

\* documents whose report_info, version marker, accounts and monthly entries
\* have the types of the two schema families
WellTyped(d) ==
    /\ Present(d, "report_info") =>
          /\ Field(d, "report_info").t = "dict"
          /\ Present(Field(d, "report_info"), "schema_version") =>
                Field(Field(d, "report_info"), "schema_version").t = "str"
    /\ Present(d, "accounts") =>
          /\ Field(d, "accounts").t = "list"
          /\ \A i \in 1..Len(Field(d, "accounts").v) :
                LET a == Field(d, "accounts").v[i] IN
                /\ a.t = "dict"
                /\ Present(a, "monthly_summary") =>
                      /\ Field(a, "monthly_summary").t = "list"
                      /\ \A j \in 1..Len(Field(a, "monthly_summary").v) :
                            Field(a, "monthly_summary").v[j].t = "dict"

\* rule 1: the declared version string starts with "5."
Rule1(d) ==
    /\ Present(d, "report_info")
    /\ Present(Field(d, "report_info"), "schema_version")
    /\ LET s == Field(Field(d, "report_info"), "schema_version").v IN
          Len(s) >= 2 /\ SubSeq(s, 1, 2) = "5."

\* rule 2: a recurring-payments or non-bank-financing section
Rule2(d) == Supplied(d, "recurring_payments") \/ Supplied(d, "non_bank_financing")

\* rule 3: the first monthly entry of account i has the intraday-high field
Rule3At(d, i) ==
    /\ i \in 1..Len(AccountsOf(d))
    /\ MonthsOf(AccountsOf(d)[i]) # << >>
    /\ Present(MonthsOf(AccountsOf(d)[i])[1], "highest_intraday")

\* C1: the classifier applies its rules in order, first match wins: a version
\* string starting with "5." gives CURRENT; otherwise a recurring-payments or
\* non-bank-financing section gives CURRENT; otherwise an intraday-high field
\* in the first monthly entry gives CURRENT; with no signal at all, LEGACY.
C1_RuleOrder ==
    (Detected /\ WellTyped(input)) =>
        /\ version.ok
        /\ version.val \in {CURRENT, LEGACY}
        /\ Rule1(input) => version.val = CURRENT
        /\ (~Rule1(input) /\ Rule2(input)) => version.val = CURRENT
        /\ (~Rule1(input) /\ ~Rule2(input) /\ Rule3At(input, 1)) => version.val = CURRENT
        /\ (~Rule1(input) /\ ~Rule2(input)
                /\ \A i \in 1..Len(AccountsOf(input)) : ~Rule3At(input, i))
              => version.val = LEGACY

\* a document declaring version "4.0" with a recurring-payments section is
\* classified CURRENT
C1_Witness ==
    /\ Detected /\ version = Ok(CURRENT)
    /\ Present(input, "report_info")
    /\ Field(input, "report_info") = Dict(<< <<"schema_version", Str("4.0")>> >>)
    /\ Supplied(input, "recurring_payments")

\* C2: when rules 1 and 2 do not match, a document is CURRENT if any
\* account's first monthly entry has the intraday-high field
C2_AnyAccount ==
    (Detected /\ WellTyped(input) /\ ~Rule1(input) /\ ~Rule2(input)
        /\ \E i \in 1..Len(AccountsOf(input)) : Rule3At(input, i))
      => version = Ok(CURRENT)

\* C3: the classifier never fails on a keyed document: it returns LEGACY or
\* CURRENT whatever the version marker and the shape of report_info/accounts
C3_NeverFails ==
    Detected => (version.ok /\ version.val \in {CURRENT, LEGACY})

\* C4: for a monthly entry holding both the legacy and the intraday name, the
\* resolved high/low is the intraday value in a CURRENT document and the
\* legacy value in a LEGACY one, wherever the keys stand in the entry
C4_VersionSymmetry ==
    Generated =>
        \A i \in 1..Len(AccountsOf(input)) :
            \A j \in 1..Len(MonthsOf(AccountsOf(input)[i])) :
                LET m == MonthsOf(AccountsOf(input)[i])[j]
                    row == out.val.monthly_tables[i][j]
                    own == out.val.schema_version = CURRENT
                IN  /\ (Present(m, "highest") /\ Present(m, "highest_intraday")) =>
                          row.high_val = Field(m, IF own THEN "highest_intraday" ELSE "highest")
                    /\ (Present(m, "lowest") /\ Present(m, "lowest_intraday")) =>
                          row.low_val = Field(m, IF own THEN "lowest_intraday" ELSE "lowest")

\* a CURRENT document whose entry lists the legacy name before the intraday
\* name resolves to the intraday value
C4_Witness ==
    /\ Generated /\ out.val.schema_version = CURRENT
    /\ \E i \in 1..Len(AccountsOf(input)) :
          \E j \in 1..Len(MonthsOf(AccountsOf(input)[i])) :
              LET m == MonthsOf(AccountsOf(input)[i])[j] IN
              /\ Len(m.v) = 4
              /\ m.v[1][1] = "highest" /\ m.v[4][1] = "highest_intraday"
              /\ out.val.monthly_tables[i][j].high_val = Num(950)
              /\ out.val.monthly_tables[i][j].low_val = Num(50)

\* C5: an entry holding only the name the version does not prefer resolves to
\* that entry's value; the default 0 is returned only when both are absent
C5_FallbackComplete ==
    Generated =>
        \A i \in 1..Len(AccountsOf(input)) :
            \A j \in 1..Len(MonthsOf(AccountsOf(input)[i])) :
                LET m == MonthsOf(AccountsOf(input)[i])[j]
                    row == out.val.monthly_tables[i][j]
                    Resolved(val, a, b) ==
                        /\ (Present(m, a) /\ ~Present(m, b)) => val = Field(m, a)
                        /\ (Present(m, b) /\ ~Present(m, a)) => val = Field(m, b)
                        /\ (Present(m, a) \/ Present(m, b)) =>
                              val \in {Field(m, k) : k \in {n \in {a, b} : Present(m, n)}}
                        /\ (~Present(m, a) /\ ~Present(m, b)) => val = Num(0)
                IN  /\ Resolved(row.high_val, "highest", "highest_intraday")
                    /\ Resolved(row.low_val, "lowest", "lowest_intraday")

\* a CURRENT document whose entry has only the legacy names resolves to them
C5_Witness ==
    /\ Generated /\ out.val.schema_version = CURRENT
    /\ \E i \in 1..Len(AccountsOf(input)) :
          \E j \in 1..Len(MonthsOf(AccountsOf(input)[i])) :
              LET m == MonthsOf(AccountsOf(input)[i])[j] IN
              /\ Present(m, "highest") /\ Present(m, "lowest")
              /\ ~Present(m, "highest_intraday") /\ ~Present(m, "lowest_intraday")
              /\ out.val.monthly_tables[i][j].high_val = Num(900)
              /\ out.val.monthly_tables[i][j].low_val = Num(100)

EndsWith(s, p) == Len(s) >= Len(p) /\ SubSeq(s, Len(s) - Len(p) + 1, Len(s)) = p

\* C6: the maximum shown by the points card and by the scoring note is 25 in
\* every LEGACY document and 23 in every CURRENT one, whatever the checks
\* list and the maximum embedded in the source
C6_MaxPoints ==
    Generated =>
        IF out.val.schema_version = LEGACY
        THEN /\ out.val.max_integrity_points = 25
             /\ EndsWith(out.val.points_card, "/25")
             /\ out.val.scoring_note
                  = "v4.0 uses 25-point system. Score = (Points Earned / 25) x 100"
        ELSE /\ out.val.schema_version = CURRENT
             /\ out.val.max_integrity_points = 23
             /\ EndsWith(out.val.points_card, "/23")
             /\ out.val.scoring_note
                  = "v5.0 uses 23-point system. Score = (Points Earned / 23) x 100"

\* a CURRENT document embedding a maximum of 25 and listing MaxChecks checks
\* shows 20/23
C6_Witness ==
    /\ Generated /\ out.val.schema_version = CURRENT
    /\ Present(input, "integrity_score")
    /\ Present(Field(input, "integrity_score"), "max_points")
    /\ Field(Field(input, "integrity_score"), "max_points") = Num(25)
    /\ out.val.int_rows >= 2
    /\ out.val.points_card = "20/23"

\* the financing sources of d, and the inflow amount a source is rendered
\* with (a source without the field renders as 0)
SourcesOf(d) ==
    IF Supplied(d, "non_bank_financing")
          /\ Present(Field(d, "non_bank_financing"), "sources")
    THEN Field(Field(d, "non_bank_financing"), "sources").v ELSE << >>

Inflow(src) == IF Present(src, "total_inflow") THEN Field(src, "total_inflow").v ELSE 0

\* the positions of the sources that are the first to carry their amount
FirstCarriers(srcs) ==
    {i \in 1..Len(srcs) : \A j \in 1..(i - 1) : Inflow(srcs[j]) # Inflow(srcs[i])}

\* the k-th smallest element of a set of positions
Nth(S, k) == CHOOSE i \in S : Cardinality({j \in S : j < i}) = k - 1

\* C7: the rendered financing sources are the input sources that are the
\* first to carry their inflow amount, in input order; no two rendered
\* sources share an amount and every input amount is rendered once
C7_DedupStable ==
    Generated =>
        LET srcs == SourcesOf(input)
            rows == out.val.source_rows
            keep == FirstCarriers(srcs)
        IN  /\ Len(rows) = Cardinality(keep)
            /\ \A k \in 1..Len(rows) :
                  /\ rows[k].source_type = Field(srcs[Nth(keep, k)], "source_type").v
                  /\ rows[k].total_inflow = Inflow(srcs[Nth(keep, k)])
            /\ \A k, l \in 1..Len(rows) :
                  k # l => rows[k].total_inflow # rows[l].total_inflow
            /\ {rows[k].total_inflow : k \in 1..Len(rows)}
                  = {Inflow(srcs[i]) : i \in 1..Len(srcs)}

\* [A(100), B(100), C(200)] is rendered as [A(100), C(200)]
C7_Witness ==
    /\ Generated
    /\ Len(SourcesOf(input)) = 3
    /\ [i \in 1..3 |-> Inflow(SourcesOf(input)[i])] = <<100, 100, 200>>
    /\ out.val.source_rows = << [source_type |-> "A", total_inflow |-> 100],
                                [source_type |-> "C", total_inflow |-> 200] >>

\* C8: for each optional section, the navigation entry is rendered exactly
\* when the section markup is, and both exactly when the document supplies
\* the section (its key holds a non-empty object); without a counterparties
\* key there is neither the counterparty button nor the counterparty section
C8_OptionalSections ==
    Generated =>
        /\ \A sec \in { <<"counterparties", "counterparties", "tab-counterparties">>,
                        <<"recurring_payments", "recurring", "tab-recurring">>,
                        <<"non_bank_financing", "nonbank", "tab-nonbank">> } :
              /\ InSeq(sec[2], out.val.nav_tabs) <=> InSeq(sec[3], out.val.tab_sections)
              /\ InSeq(sec[2], out.val.nav_tabs) <=> Supplied(input, sec[1])
        /\ ~Present(input, "counterparties") =>
              /\ ~InSeq("counterparties", out.val.nav_tabs)
              /\ ~InSeq("tab-counterparties", out.val.tab_sections)
        /\ Len(out.val.nav_tabs) = Len(out.val.tab_sections)

\* a document supplying counterparties but no recurring payments has the
\* counterparty button and section and neither for recurring payments
C8_Witness ==
    /\ Generated
    /\ Supplied(input, "counterparties") /\ ~Present(input, "recurring_payments")
    /\ InSeq("counterparties", out.val.nav_tabs)
    /\ InSeq("tab-counterparties", out.val.tab_sections)
    /\ ~InSeq("recurring", out.val.nav_tabs)
    /\ ~InSeq("tab-recurring", out.val.tab_sections)

\* the alert list the document supplies (empty when it supplies none)
GivenAlerts(d) ==
    IF Present(d, "volatility") /\ Present(Field(d, "volatility"), "alerts")
    THEN Field(Field(d, "volatility"), "alerts").v ELSE << >>

\* the account-months of d whose volatility level is HIGH or EXTREME
AlertMonths(d) ==
    {p \in UNION {{<<i, j>> : j \in 1..Len(MonthsOf(AccountsOf(d)[i]))} :
                     i \in 1..Len(AccountsOf(d))} :
        LET m == MonthsOf(AccountsOf(d)[p[1]])[p[2]] IN
        Present(m, "volatility_level")
            /\ Field(m, "volatility_level").v \in {"HIGH", "EXTREME"}}

\* account order, then month order
Before(p, q) == p[1] < q[1] \/ (p[1] = q[1] /\ p[2] < q[2])

\* '{month} ({bank}): {pct}% volatility - {level}'
ExpectedLine(d, p) ==
    LET a == AccountsOf(d)[p[1]]
        m == MonthsOf(a)[p[2]]
        month == IF Present(m, "month_name") THEN Field(m, "month_name").v
                 ELSE IF Present(m, "month") THEN Field(m, "month").v ELSE ""
        pct == IF Present(m, "volatility_pct") THEN Field(m, "volatility_pct").v ELSE 0
    IN  month \o " (" \o Field(a, "bank_name").v \o "): " \o ToString(pct)
            \o "% volatility - " \o Field(m, "volatility_level").v

\* C9: without a supplied alert list (absent or empty) the alerts are one
\* line per HIGH or EXTREME account-month, in account order then month
\* order, and no other line; a supplied non-empty list is used unchanged
C9_AlertSynthesis ==
    Generated =>
        IF GivenAlerts(input) = << >>
        THEN LET S == AlertMonths(input) IN
             /\ Len(out.val.vol_alerts) = Cardinality(S)
             /\ \A k \in 1..Len(out.val.vol_alerts) :
                   out.val.vol_alerts[k]
                     = ExpectedLine(input,
                           CHOOSE p \in S : Cardinality({q \in S : Before(q, p)}) = k - 1)
        ELSE out.val.vol_alerts
               = [k \in 1..Len(GivenAlerts(input)) |-> GivenAlerts(input)[k].v]

\* HIGH 150% 'Jun 2024' of bank Alpha and one LOW month, no alert list:
\* exactly one line
C9_Witness ==
    /\ Generated
    /\ ~Present(input, "volatility")
    /\ Len(AccountsOf(input)) = 1
    /\ Len(MonthsOf(AccountsOf(input)[1])) = 2
    /\ Present(MonthsOf(AccountsOf(input)[1])[2], "volatility_level")
    /\ Field(MonthsOf(AccountsOf(input)[1])[2], "volatility_level") = Str("LOW")
    /\ out.val.vol_alerts = <<"Jun 2024 (Alpha): 150% volatility - HIGH">>

\* the round-figure object of d
RoundFigOf(d) ==
    IF Present(d, "flags") /\ Present(Field(d, "flags"), "round_figure_transactions")
    THEN Field(Field(d, "flags"), "round_figure_transactions") ELSE EmptyDict

\* C10: the note 'Showing N of C transactions' is shown exactly when the
\* number N of embedded round-figure transactions is smaller than the
\* round-figure count C shown; count 12 with 10 transactions supplied reads
\* 'Showing 10 of 12 transactions'
C10_TruncationNote ==
    Generated =>
        LET n == Len(out.val.round_js)
            c == out.val.round_count
            rf == RoundFigOf(input)
        IN  /\ (out.val.round_note # "") <=> (n < c)
            /\ n < c => out.val.round_note
                          = "Showing " \o ToString(n) \o " of " \o ToString(c)
                              \o " transactions"
            /\ (Present(rf, "count") /\ Field(rf, "count") = Num(12)
                  /\ ~Present(rf, "all_transactions")
                  /\ Present(rf, "top_10_transactions")
                  /\ Len(Field(rf, "top_10_transactions").v) = 10)
                 => out.val.round_note = "Showing 10 of 12 transactions"

\* count 12 with 10 transactions supplied
C10_Witness ==
    /\ Generated
    /\ out.val.round_count = 12 /\ Len(out.val.round_js) = 10
    /\ out.val.round_note = "Showing 10 of 12 transactions"

\* C11: two runs of the compiler on the same in-memory document, at any two
\* moments, give the same output
C11_Deterministic ==
    (runs >= 2 /\ prev # NotRun /\ prev.ok /\ out.ok) => out = prev

\* the texts of the rendered document that are taken from the input
RenderedTexts(o) ==
    {o.header.company, o.rp_parties}
        \cup UNION {{o.acc_cards[i].bank_name, o.acc_cards[i].account_number} :
                       i \in 1..Len(o.acc_cards)}
        \cup {o.credits_rows[i] : i \in 1..Len(o.credits_rows)}
        \cup {o.debits_rows[i] : i \in 1..Len(o.debits_rows)}
        \cup {o.pos_obs[i] : i \in 1..Len(o.pos_obs)}
        \cup {o.con_obs[i] : i \in 1..Len(o.con_obs)}
        \cup UNION {{o.rec_html[i].category, o.rec_html[i].recommendation} :
                       i \in 1..Len(o.rec_html)}
        \cup {o.vol_alerts[i] : i \in 1..Len(o.vol_alerts)}

\* s holds no markup character outside a character reference
SafeText(s) ==
    \A i \in 1..Len(s) :
        LET c == SubSeq(s, i, i) IN
        /\ c \notin {"<", ">", "\""}
        /\ c = "&" =>
              \E e \in {"&amp;", "&lt;", "&gt;", "&quot;", "&#x27;", "&#39;"} :
                  i + Len(e) - 1 <= Len(s) /\ SubSeq(s, i, i + Len(e) - 1) = e

\* C12: no text interpolated from the input appears in the generated
\* document with an unescaped <, >, & or double quote
C12_Escaped ==
    Generated => \A s \in RenderedTexts(out.val) : SafeText(s)

NineSections ==
    <<"tab-overview", "tab-accounts", "tab-turnover", "tab-categories",
      "tab-volatility", "tab-flags", "tab-integrity", "tab-related",
      "tab-recommendations">>

IsFixedSection(x) == InSeq(x, NineSections)

\* the figures and lists shown for the absent sections of d are 0 and empty
AbsentZeroes(d, o) ==
    /\ ~Present(d, "report_info") => o.rp_count = 0
    /\ ~Present(d, "accounts") =>
          o.acc_cards = << >> /\ o.monthly_tables = << >> /\ o.total_txns = 0
    /\ ~Present(d, "consolidated") =>
          /\ \A k \in DOMAIN o.exclusions : o.exclusions[k] = 0
          /\ o.rp = [rp_credit |-> 0, rp_debit |-> 0, rp_net |-> 0]
    /\ ~Present(d, "categories") => o.credits_rows = << >> /\ o.debits_rows = << >>
    /\ ~Present(d, "volatility") => o.scores.vol_index = 0 /\ o.vol_alerts = << >>
    /\ ~Present(d, "flags") => o.scores.returned_count = 0
    /\ (~Present(d, "flags") /\ ~Present(d, "flagged_for_review")) =>
          o.round_count = 0 /\ o.round_js = << >> /\ o.round_note = ""
    /\ ~Present(d, "integrity_score") => o.int_rows = 0
    /\ ~Present(d, "observations") => o.pos_obs = << >> /\ o.con_obs = << >>
    /\ ~Present(d, "recommendations") => o.rec_html = << >>
    /\ \A sec \in { <<"counterparties", "tab-counterparties">>,
                    <<"recurring_payments", "tab-recurring">>,
                    <<"non_bank_financing", "tab-nonbank">> } :
          ~Present(d, sec[1]) => ~InSeq(sec[2], o.tab_sections)

\* the texts shown for the fields of the absent sections of d, by field
AbsentTexts(d, o) ==
    (IF Present(d, "report_info") THEN {}
     ELSE {<<"company_name", o.header.company>>,
           <<"period_start", o.header.period_start>>,
           <<"period_end", o.header.period_end>>,
           <<"total_months", o.header.total_months>>,
           <<"generated_at", o.header.generated_at>>,
           <<"related_parties", o.rp_parties>>})
    \cup (IF Present(d, "volatility") THEN {}
          ELSE {<<"overall_level", o.scores.vol_level>>})
    \cup (IF Present(d, "flags") THEN {}
          ELSE {<<"assessment", o.scores.returned_assessment>>})
    \cup (IF Present(d, "kite_flying") THEN {}
          ELSE {<<"risk_score", o.scores.kite_score>>,
                <<"risk_level", o.scores.kite_level>>})
    \cup (IF Present(d, "integrity_score") THEN {}
          ELSE {<<"score", o.scores.int_score>>,
                <<"rating", o.scores.int_rating>>,
                <<"points_earned", SubSeq(o.points_card, 1, 1)>>})

C16_Degrades ==
    out # NotRun => out.ok

\* the exclusion amount under key k of side ("credits" or "debits") of d
ExclusionOf(d, side, k) ==
    LET c == Field(d, "consolidated")
        e == Field(c, "exclusions")
    IN  IF Present(e, side) /\ Present(Field(e, side), k)
        THEN Field(Field(e, side), k) ELSE Num(0)

\* a bare number is itself, an object is its total, any other shape is 0
ResolvedAmount(x) ==
    IF x.t = "num" THEN x.v
    ELSE IF x.t = "dict" /\ Present(x, "total") THEN Field(x, "total").v
    ELSE 0

\* C17: every exclusion amount read resolves to a number (itself, its total
\* field, or 0), the related-party summary cards and their net flow
\* included, and generation succeeds
C17_ExclusionsResolve ==
    (out # NotRun /\ input \in ExclusionDocs) =>
        /\ out.ok
        /\ LET A(side, k) == ResolvedAmount(ExclusionOf(input, side, k)) IN
           /\ out.val.exclusions.cr_related = A("credits", "related_party")
           /\ out.val.exclusions.cr_inter = A("credits", "inter_account")
           /\ out.val.exclusions.dr_related = A("debits", "related_party")
           /\ out.val.exclusions.dr_returned = A("debits", "returned_cheque")
           /\ out.val.rp.rp_credit = A("credits", "related_party")
           /\ out.val.rp.rp_debit = A("debits", "related_party")
           /\ out.val.rp.rp_net
                = A("credits", "related_party") - A("debits", "related_party")

\* the declared related parties of d
PartiesOf(d) ==
    IF Present(d, "report_info") /\ Present(Field(d, "report_info"), "related_parties")
    THEN Field(Field(d, "report_info"), "related_parties").v ELSE << >>

DisplayName(e) == IF e.t = "str" THEN e.v ELSE Field(e, "name").v

RECURSIVE CommaList(_)
CommaList(names) ==
    IF Len(names) = 1 THEN names[1]
    ELSE names[1] \o ", " \o CommaList(Tail(names))

\* C18: the rendered related-party list holds the display name of every
\* declared entry, in order (the string itself, or the name field of an
\* object), also when the list mixes both forms; an empty or absent list
\* renders 'None specified'
C18_EntryByEntry ==
    (out # NotRun /\ input \in RelatedDocs) =>
        /\ out.ok
        /\ LET ps == PartiesOf(input) IN
           /\ out.val.rp_count = Len(ps)
           /\ out.val.rp_parties
                = IF ps = << >> THEN "None specified"
                  ELSE CommaList([i \in 1..Len(ps) |-> DisplayName(ps[i])])

IsObject(x) == x.t = "dict"

FieldOr(o, k, dflt) == IF Present(o, k) THEN Field(o, k) ELSE dflt

\* the canonical shape of a flagged item
Normalized(t) ==
    Dict(<< <<"date", FieldOr(t, "date", Str(""))>>,
            <<"description", FieldOr(t, "description", Str(""))>>,
            <<"type", FieldOr(t, "type", Str("CREDIT"))>>,
            <<"amount", FieldOr(t, "amount", Num(0))>>,
            <<"account", FieldOr(t, "account", Str(""))>>,
            <<"counterparty", FieldOr(t, "counterparty", Str(""))>>,
            <<"flag_reason", FieldOr(t, "flag_reason", Str(""))>> >>)

ReviewOf(d) == FieldOr(d, "flagged_for_review", EmptyDict)

\* the flagged items of a review block: all_items, else top_10_items
ReviewItems(ffr) ==
    IF Present(ffr, "all_items") /\ Field(ffr, "all_items").v # << >>
    THEN Field(ffr, "all_items").v
    ELSE IF Present(ffr, "top_10_items") THEN Field(ffr, "top_10_items").v
    ELSE << >>

\* the document has a round-figure flag of its own; it needs one synthesized
OwnRoundFig(d) == Present(d, "flags") /\ RoundFigOf(d).v # << >>
FoldsIn(d) == ~OwnRoundFig(d) /\ ReviewOf(d).v # << >>

\* C19: a non-empty flags.round_figure_transactions is used as is; when it
\* is absent or empty and there is a non-empty flagged_for_review block, the
\* flag is synthesized from the block: its items (all_items, else
\* top_10_items) that are objects, each in the canonical shape with type
\* defaulting to CREDIT, the count defaulting to their number, and the
\* top-10 list being the first 10 of them
C19_FoldIn ==
    Generated =>
        LET rf == out.val.round_fig
            ffr == ReviewOf(input)
            objs == SelectSeq(ReviewItems(ffr), IsObject)
        IN  /\ OwnRoundFig(input) => rf = RoundFigOf(input)
            /\ FoldsIn(input) =>
                  /\ Field(rf, "all_transactions").v
                       = [i \in 1..Len(objs) |-> Normalized(objs[i])]
                  /\ Field(rf, "top_10_transactions").v
                       = [i \in 1..(IF Len(objs) < 10 THEN Len(objs) ELSE 10) |->
                             Normalized(objs[i])]
                  /\ Field(rf, "count") = FieldOr(ffr, "count", Num(Len(objs)))
                  /\ out.val.round_count = Field(rf, "count").v
            /\ (~OwnRoundFig(input) /\ ~FoldsIn(input)) => rf = EmptyDict

\* a review block of 11 items and no flags: the flag holds the 11 items
\* with type CREDIT, its top-10 list the first 10, and the count is 11
C19_Witness ==
    /\ Generated /\ ~Present(input, "flags")
    /\ Len(ReviewItems(ReviewOf(input))) = 11
    /\ Len(Field(out.val.round_fig, "all_transactions").v) = 11
    /\ Len(Field(out.val.round_fig, "top_10_transactions").v) = 10
    /\ Field(Field(out.val.round_fig, "all_transactions").v[11], "type") = Str("CREDIT")
    /\ out.val.round_count = 11

\* the list chosen from a round-figure flag
ChosenList(rf) ==
    IF Present(rf, "all_transactions") THEN Field(rf, "all_transactions").v
    ELSE IF Present(rf, "top_10_transactions") THEN Field(rf, "top_10_transactions").v
    ELSE IF Present(rf, "transactions") THEN Field(rf, "transactions").v
    ELSE << >>

\* C20: the list embedded for the round-figure modal is the all-transactions
\* list when that key exists, else the top-10 list, else the generic
\* transactions list, else empty, and every transaction of the chosen list
\* is embedded, in order
C20_ListPrecedence ==
    Generated =>
        LET rf == IF FoldsIn(input) THEN out.val.round_fig
                  ELSE IF OwnRoundFig(input) THEN RoundFigOf(input) ELSE EmptyDict
            chosen == ChosenList(rf)
        IN  /\ Len(out.val.round_js) = Len(chosen)
            /\ \A i \in 1..Len(chosen) :
                  /\ Field(out.val.round_js[i], "date") = FieldOr(chosen[i], "date", Str(""))
                  /\ Field(out.val.round_js[i], "desc")
                       = FieldOr(chosen[i], "description", Str(""))
                  /\ Field(out.val.round_js[i], "type")
                       = FieldOr(chosen[i], "type", Str("CREDIT"))
                  /\ Field(out.val.round_js[i], "amount")
                       = FieldOr(chosen[i], "amount", Num(0))
                  /\ Field(out.val.round_js[i], "account")
                       = FieldOr(chosen[i], "account", Str(""))

\* a flag with a top-10 list of 10 and a generic list of 2, and no
\* all-transactions key: the 10 are embedded
C20_Witness ==
    /\ Generated /\ OwnRoundFig(input)
    /\ ~Present(RoundFigOf(input), "all_transactions")
    /\ Present(RoundFigOf(input), "top_10_transactions")
    /\ Present(RoundFigOf(input), "transactions")
    /\ Len(Field(RoundFigOf(input), "top_10_transactions").v) = 10
    /\ Len(out.val.round_js) = 10
    /\ Field(out.val.round_js[10], "amount") = Num(10000)

\* the recurring-payments section of d, when it is a non-empty object
RecurringOf(d) == Field(d, "recurring_payments")
HasRecurring(d) == Supplied(d, "recurring_payments")

\* the payments of the list stored under key k of the section, none when
\* the list is absent
ListedPayments(rec, k) ==
    IF Present(rec, k) /\ Field(rec, k).t = "list" THEN Field(rec, k).v ELSE << >>

PaymentLists == <<"payments", "statutory_payments", "payment_types">>

\* the first non-empty list of the section, none when all are absent or empty
FirstPayments(rec) ==
    IF \E i \in 1..3 : ListedPayments(rec, PaymentLists[i]) # << >>
    THEN ListedPayments(rec, PaymentLists[
             CHOOSE i \in 1..3 :
                /\ ListedPayments(rec, PaymentLists[i]) # << >>
                /\ \A j \in 1..(i - 1) : ListedPayments(rec, PaymentLists[j]) = << >>])
    ELSE << >>

KnownTypes ==
    <<"EPF/KWSP", "SOCSO/PERKESO", "TAX/LHDN", "RENT", "UTILITIES", "LOAN_REPAYMENT">>
KnownKeys ==
    <<"epf_kwsp", "socso_perkeso", "tax_lhdn", "rent", "utilities", "loan_repayment">>

\* the sub-object of the i-th known type: under its lower-case key when
\* that one holds a non-empty object, else under the type itself
SubObject(rec, i) ==
    IF Supplied(rec, KnownKeys[i]) THEN Field(rec, KnownKeys[i])
    ELSE IF Present(rec, KnownTypes[i]) THEN Field(rec, KnownTypes[i])
    ELSE EmptyDict

\* the sub-object of the i-th known type has a key, empty or not
HasSubObject(rec, i) == Present(rec, KnownKeys[i]) \/ Present(rec, KnownTypes[i])

MonthCount(d) ==
    IF Present(d, "report_info") THEN FieldOr(Field(d, "report_info"), "total_months", Num(0))
    ELSE Num(0)

MissingText(months) ==
    IF months = << >> THEN "None"
    ELSE Join([i \in 1..Len(months) |-> months[i].v], ", ")

\* the cells of a listed payment
ListedRow(p, row) ==
    /\ row.type = PyStr(FieldOr(p, "type", Str("")))
    /\ row.expected = PyStr(FieldOr(p, "expected_count", Num(0)))
    /\ row.found = PyStr(FieldOr(p, "found_count", Num(0)))
    /\ row.missing = MissingText(FieldOr(p, "missing_months", EmptyList).v)
    /\ row.status = PyStr(FieldOr(p, "status", Str("OK")))

\* the cells of the row synthesized for the i-th known type, as stated: the
\* found count is the sub-object's found, 0 without one
StatedRow(d, i, row) ==
    LET sub == SubObject(RecurringOf(d), i) IN
    /\ row.type = KnownTypes[i]
    /\ row.expected = PyStr(FieldOr(sub, "expected", MonthCount(d)))
    /\ row.found = PyStr(FieldOr(sub, "found", Num(0)))
    /\ row.missing = MissingText(FieldOr(sub, "missing_months", EmptyList).v)
    /\ row.status = PyStr(FieldOr(sub, "status", Str("OK")))

\* the cells of the row synthesized for the i-th known type: the found count
\* is the sub-object's found, else its count, else 0
SynthesizedRow(d, i, row) ==
    LET sub == SubObject(RecurringOf(d), i) IN
    /\ row.type = KnownTypes[i]
    /\ row.expected = PyStr(FieldOr(sub, "expected", MonthCount(d)))
    /\ row.found = PyStr(FieldOr(sub, "found", FieldOr(sub, "count", Num(0))))
    /\ row.missing = MissingText(FieldOr(sub, "missing_months", EmptyList).v)
    /\ row.status = PyStr(FieldOr(sub, "status", Str("OK")))

\* the positions of sequence idx, a strictly increasing enumeration of set S
Enumerates(idx, S) ==
    /\ {idx[i] : i \in 1..Len(idx)} = S
    /\ \A i \in 1..(Len(idx) - 1) : idx[i] < idx[i + 1]

\* the known types in order, those of S only
InOrder(S) ==
    CHOOSE idx \in UNION {[1..n -> 1..6] : n \in {Cardinality(S)}} : Enumerates(idx, S)

\* C21 as stated: the rows are those of the first non-empty list among
\* payments, statutory_payments and payment_types; with no such list there is
\* one row per known type whose sub-object is present, in the fixed order,
\* with expected defaulting to the month count, found to 0, the missing
\* months to none and the status to OK
C21_AsStated ==
    (Generated /\ HasRecurring(input)) =>
        LET rec == RecurringOf(input)
            first == FirstPayments(rec)
            types == InOrder({i \in 1..6 : HasSubObject(rec, i)})
        IN  IF first # << >>
            THEN /\ Len(out.val.rec_rows) = Len(first)
                 /\ \A i \in 1..Len(first) : ListedRow(first[i], out.val.rec_rows[i])
            ELSE /\ Len(out.val.rec_rows) = Len(types)
                 /\ \A i \in 1..Len(types) : StatedRow(input, types[i], out.val.rec_rows[i])

\* C21: the rows are those of the first non-empty list among payments,
\* statutory_payments and payment_types; with no such list there is one row
\* per known type whose sub-object is present and non-empty, in the fixed
\* order, with expected defaulting to the month count, found to the
\* sub-object's count and then to 0, the missing months to none and the
\* status to OK; a type without a non-empty sub-object has no row
C21_RecurringRows ==
    (Generated /\ HasRecurring(input)) =>
        LET rec == RecurringOf(input)
            first == FirstPayments(rec)
            types == InOrder({i \in 1..6 : SubObject(rec, i).v # << >>})
        IN  IF first # << >>
            THEN /\ Len(out.val.rec_rows) = Len(first)
                 /\ \A i \in 1..Len(first) : ListedRow(first[i], out.val.rec_rows[i])
            ELSE /\ Len(out.val.rec_rows) = Len(types)
                 /\ \A i \in 1..Len(types) :
                       SynthesizedRow(input, types[i], out.val.rec_rows[i])

\* the three lists empty or absent, the EPF sub-object without counts and the
\* rent sub-object under the upper-case key, 12 months: two rows, EPF before
\* rent, expecting 12
C21_Witness ==
    /\ Generated /\ HasRecurring(input)
    /\ FirstPayments(RecurringOf(input)) = << >>
    /\ Present(RecurringOf(input), "payment_types")
    /\ Len(out.val.rec_rows) = 2
    /\ out.val.rec_rows[1].type = "EPF/KWSP"
    /\ out.val.rec_rows[1].expected = "12"
    /\ out.val.rec_rows[1].found = "3"
    /\ out.val.rec_rows[1].missing = "None"
    /\ out.val.rec_rows[2].type = "RENT"
    /\ out.val.rec_rows[2].status = "PASS"

\* the assessment of the recurring payments of d, {} without one
AssessmentOf(d) == FieldOr(RecurringOf(d), "assessment", EmptyDict)

HasFailureToken(text) ==
    Contains(text, "MISSING") \/ Contains(text, "ALERT") \/ Contains(text, "NOT")

HasSatisfactionToken(text) ==
    Contains(text, "OK") \/ Contains(text, "MET") \/ Contains(text, "COMPLIANT")

\* the text says the payments are non-compliant
IndicatesFailure(text) == HasFailureToken(text) \/ Contains(text, "NON-COMPLIANT")

\* C22: a free-text assessment with a failure token is labelled ALERT with
\* risk MODERATE, whatever satisfaction token it also holds; else one with a
\* satisfaction token is labelled COMPLIANT with risk LOW; else the text is
\* the label and the risk is LOW; an object gives its own compliance and
\* risk level, COMPLIANT and LOW by default; for a text the risk is MODERATE
\* exactly when the label is the ALERT classification, and a text indicating
\* failure, such as 'non-compliant', is never labelled COMPLIANT
C22_ComplianceLabel ==
    (Generated /\ HasRecurring(input)) =>
        LET a == AssessmentOf(input)
            text == IF a.t = "str" THEN upper(a.v) ELSE ""
            label == out.val.compliance
            risk == out.val.risk
        IN  /\ a.t = "str" =>
                 /\ HasFailureToken(text) => (label = "ALERT" /\ risk = "MODERATE")
                 /\ (~HasFailureToken(text) /\ HasSatisfactionToken(text))
                       => (label = "COMPLIANT" /\ risk = "LOW")
                 /\ (~HasFailureToken(text) /\ ~HasSatisfactionToken(text))
                       => (label = a.v /\ risk = "LOW")
                 /\ risk = "MODERATE" <=> HasFailureToken(text)
                 /\ IndicatesFailure(text) => label # "COMPLIANT"
            /\ a.t = "dict" =>
                 /\ label = PyStr(FieldOr(a, "statutory_compliance",
                                          FieldOr(a, "compliance", Str("COMPLIANT"))))
                 /\ risk = PyStr(FieldOr(a, "risk_level", Str("LOW")))

NonBankOf(d) == Field(d, "non_bank_financing")
HasNonBank(d) == Supplied(d, "non_bank_financing")

\* the assessment of the non-bank section of d, {} without one
NonBankAssessment(d) == FieldOr(NonBankOf(d), "assessment", EmptyDict)

\* the risk level of the non-bank section: the one of the assessment object,
\* else the top-level one, else LOW
StatedRisk(d) ==
    LET a == NonBankAssessment(d) IN
    IF a.t = "dict" /\ Present(a, "risk_level") THEN Field(a, "risk_level")
    ELSE FieldOr(NonBankOf(d), "risk_level", Str("LOW"))

\* the assessment is an object carrying a non-empty summary
CarriesSummary(a) ==
    a.t = "dict" /\ Present(a, "summary") /\ Field(a, "summary") # Str("")

\* C23 as stated: the risk level is that of the assessment object when it
\* has one, else the top-level one, else LOW, and a summary is shown only
\* when the assessment is an object carrying one
C23_AsStated ==
    (Generated /\ HasNonBank(input)) =>
        /\ out.val.nb_risk = PyStr(StatedRisk(input))
        /\ out.val.nb_summary # "" => CarriesSummary(NonBankAssessment(input))

\* C23: the risk level is that of the assessment object when it has one,
\* else the top-level one, else LOW; the summary shown is the assessment
\* itself when it is a text, the summary of the assessment when it is an
\* object carrying one, and none otherwise
C23_NonBankRisk ==
    (Generated /\ HasNonBank(input)) =>
        LET a == NonBankAssessment(input) IN
        /\ out.val.nb_risk = PyStr(StatedRisk(input))
        /\ out.val.nb_summary =
              (IF a.t = "str" THEN a.v
               ELSE IF CarriesSummary(a) THEN PyStr(Field(a, "summary"))
               ELSE "")

\* a top-level HIGH and an assessment object with MODERATE and a summary:
\* MODERATE and the summary are shown
C23_Witness ==
    /\ Generated /\ HasNonBank(input)
    /\ FieldOr(NonBankOf(input), "risk_level", Null) = Str("HIGH")
    /\ CarriesSummary(NonBankAssessment(input))
    /\ Present(NonBankAssessment(input), "risk_level")
    /\ out.val.nb_risk = "MODERATE"
    /\ out.val.nb_summary = "Two lenders"

InterOf(d) == FieldOr(d, "inter_account_transfers", EmptyDict)

\* the transfer list of d: all_transfers of the matched transfers, else
\* their top_10_transfers, else the legacy transfers, else none
StatedTransfers(d) ==
    LET matched == FieldOr(InterOf(d), "matched_transfers", EmptyDict) IN
    IF Present(matched, "all_transfers") THEN Field(matched, "all_transfers").v
    ELSE IF Present(matched, "top_10_transfers") THEN Field(matched, "top_10_transfers").v
    ELSE FieldOr(InterOf(d), "transfers", EmptyList).v

RECURSIVE SumAmounts(_)
SumAmounts(ts) ==
    IF ts = << >> THEN 0
    ELSE FieldOr(Head(ts), "amount", Num(0)).v + SumAmounts(Tail(ts))

\* C24: the transfers shown are those of all_transfers, else of
\* top_10_transfers, else of the legacy transfers list; the count is the
\* summary's total_count, else the legacy detected_count, else the number of
\* transfers of that list; the total is the summary's total_amount, else the
\* legacy total_amount, else the sum of the amounts of that list
C24_InterAccount ==
    (Generated /\ out.val.inter.shown) =>
        LET ts == StatedTransfers(input)
            summary == FieldOr(InterOf(input), "summary", EmptyDict)
        IN  /\ Len(out.val.inter.rows) = Len(ts)
            /\ \A i \in 1..Len(ts) :
                  /\ out.val.inter.rows[i].date = Field(ts[i], "date").v
                  /\ out.val.inter.rows[i].amount = Field(ts[i], "amount").v
            /\ out.val.inter.count =
                  PyStr(FieldOr(summary, "total_count",
                                FieldOr(InterOf(input), "detected_count", Num(Len(ts)))))
            /\ out.val.inter.total =
                  FieldOr(summary, "total_amount",
                          FieldOr(InterOf(input), "total_amount", Num(SumAmounts(ts)))).v

KiteOf(d) == FieldOr(d, "kite_flying", EmptyDict)

\* the indicators and the detailed findings supplied by d
IndicatorsOf(d) == FieldOr(KiteOf(d), "indicators", EmptyList).v
FindingsOf(d) == FieldOr(KiteOf(d), "detailed_findings", EmptyList).v

\* the indicators of d are texts
TextIndicators(d) ==
    IndicatorsOf(d) # << >> /\ \A i \in 1..Len(IndicatorsOf(d)) : IndicatorsOf(d)[i].t = "str"

\* C25: indicators given as texts give one row per text, in order; row i
\* shows the text, and as finding the i-th detailed finding when there is
\* one, else the text itself; every row has the same status, WARNING when
\* the risk score is above 0 and PASS otherwise
C25_TextIndicators ==
    (Generated /\ TextIndicators(input)) =>
        LET texts == IndicatorsOf(input)
            findings == FindingsOf(input)
            status == IF FieldOr(KiteOf(input), "risk_score", Num(0)).v > 0
                      THEN "WARNING" ELSE "PASS"
        IN  /\ Len(out.val.kite_rows) = Len(texts)
            /\ \A i \in 1..Len(texts) :
                  /\ out.val.kite_rows[i].indicator = texts[i].v
                  /\ out.val.kite_rows[i].status = status
                  /\ out.val.kite_rows[i].finding =
                        (IF i <= Len(findings) THEN findings[i].v ELSE texts[i].v)

\* three texts, two findings and a risk score of 3: the first row shows the
\* first finding, the third row its own text, both with WARNING
C25_Witness ==
    /\ Generated /\ TextIndicators(input)
    /\ Len(IndicatorsOf(input)) = 3 /\ Len(FindingsOf(input)) = 2
    /\ Len(out.val.kite_rows) = 3
    /\ out.val.kite_rows[1].finding = "A to B to A, 3 times"
    /\ out.val.kite_rows[3].finding = "Round amounts"
    /\ out.val.kite_rows[1].status = "WARNING"
    /\ out.val.kite_rows[3].status = "WARNING"

DefaultNames ==
    <<"Circular Transfers", "Month-End Concentration", "Round Amount Patterns",
      "Timing Exploitation", "Suspicious Balance Spikes", "Same Amount In/Out",
      "Vague Descriptions">>

\* every indicator of d is a text or an object
WellFormedIndicators(d) ==
    /\ KiteOf(d).t = "dict"
    /\ FieldOr(KiteOf(d), "indicators", EmptyList).t = "list"
    /\ \A i \in 1..Len(IndicatorsOf(d)) : IndicatorsOf(d)[i].t \in {"str", "dict"}

\* C26: without any indicator the table has exactly the seven default rows
\* in their fixed order, six of them PASS with 0 points and the round-amount
\* row WARNING exactly when the resolved round-figure count is above 5; with
\* at least one indicator the rows are those of the indicators supplied and
\* no default row is rendered
C26_DefaultIndicators ==
    (Generated /\ WellFormedIndicators(input)) =>
        LET supplied == IndicatorsOf(input) IN
        IF supplied = << >>
        THEN /\ Len(out.val.kite_rows) = 7
             /\ \A i \in 1..7 :
                   /\ out.val.kite_rows[i].indicator = DefaultNames[i]
                   /\ i # 3 => /\ out.val.kite_rows[i].status = "PASS"
                               /\ out.val.kite_rows[i].points = "0"
             /\ out.val.kite_rows[3].status \in {"WARNING", "PASS"}
             /\ out.val.kite_rows[3].status = "WARNING" <=> out.val.round_count > 5
        ELSE /\ Len(out.val.kite_rows) = Len(supplied)
             /\ \A i \in 1..Len(supplied) :
                   out.val.kite_rows[i].indicator =
                      (IF supplied[i].t = "str" THEN supplied[i].v
                       ELSE PyStr(FieldOr(supplied[i], "indicator", Str(""))))

\* no indicators and a round-figure count of exactly 5: seven rows, the
\* round-amount row PASS
C26_Witness ==
    /\ Generated /\ WellFormedIndicators(input)
    /\ IndicatorsOf(input) = << >>
    /\ out.val.round_count = 5
    /\ Len(out.val.kite_rows) = 7
    /\ out.val.kite_rows[3].indicator = "Round Amount Patterns"
    /\ out.val.kite_rows[3].status = "PASS"
    /\ out.val.kite_rows[3].finding = "5 round figure transactions"

\* one indicator and a round-figure count of 6: one row, none of the defaults
C26_SuppliedWitness ==
    /\ Generated /\ WellFormedIndicators(input)
    /\ Len(IndicatorsOf(input)) = 1
    /\ out.val.round_count = 6
    /\ Len(out.val.kite_rows) = 1

\* s is a year and a month written YYYY-MM
IsYearMonth(s) ==
    /\ Len(s) = 7 /\ SubSeq(s, 5, 5) = "-"
    /\ \A i \in {1, 2, 3, 4, 6, 7} : SubSeq(s, i, i) \in Digits
    /\ ToNat(SubSeq(s, 6, 7)) \in 1..12

MonthAbbreviations ==
    <<"Jan", "Feb", "Mar", "Apr", "May", "Jun", "Jul", "Aug", "Sep", "Oct", "Nov", "Dec">>

\* the label stated for a monthly entry: the abbreviation of the month and
\* the year of its own YYYY-MM value, else its month name, else its month
StatedLabel(m) ==
    LET month == FieldOr(m, "month", Str(""))
        month_name == FieldOr(m, "month_name", Str(""))
    IN  IF month.t = "str" /\ IsYearMonth(month.v)
        THEN Str(MonthAbbreviations[ToNat(SubSeq(month.v, 6, 7))]
                 \o " " \o SubSeq(month.v, 1, 4))
        ELSE IF month_name # Str("") THEN month_name
        ELSE month

\* C27: a month written YYYY-MM is labelled with the abbreviation of MM and
\* the year of that same value, any other entry with its month name, else
\* with its month as given; labelling fails for no month text; every series
\* has one label and one value per monthly entry, in order
C27_ChartLabels ==
    /\ (out # NotRun /\ input \in ChartDocs) => out.ok
    /\ Generated =>
          /\ Len(out.val.vol_data) = Len(AccountsOf(input))
          /\ \A i \in 1..Len(AccountsOf(input)) :
                LET ms == MonthsOf(AccountsOf(input)[i]) IN
                /\ Len(out.val.vol_data[i].x) = Len(ms)
                /\ Len(out.val.vol_data[i].y) = Len(ms)
                /\ \A j \in 1..Len(ms) :
                      /\ out.val.vol_data[i].x[j] = StatedLabel(ms[j])
                      /\ out.val.vol_data[i].y[j] = FieldOr(ms[j], "volatility_pct", Num(0))

\* C28: generating a report leaves the document it reads as it was: its
\* flags, its volatility alerts and its recurring-payment lists included
C28_Frame == data = input

----------------------------------------------------------------------------
(* Properties of the script run (BatchSpec) *)

\* json.loads accepts the text of the file
Parses(uf) == _load_json_from_upload(uf).ok
Unparseable(uf) == ~Parses(uf)

\* the document the file holds
DocOf(uf) == _load_json_from_upload(uf).val

\* the uploaded files the loading loop has gone through
Seen == SubSeq(uploaded_files, 1, Loaded)

\* a keyed document whose report can be named and compiled at any moment
Compiles(d) ==
    /\ IsDict(d)
    /\ report_base("x.json", d).ok
    /\ \A g \in Compiled(d) : g.res.ok

\* the buttons that offer an HTML report
IsReport(b) == EndsWith(b.file, ".html")

\* C13: in a batch of uploaded files, a file that cannot be parsed does not
\* abort the run: the loaded documents are exactly the parseable files, in
\* order and under their names; the errors are exactly one per unparseable
\* file, in order, each starting with the name of its file; so the loaded
\* documents and the errors together number the files gone through, and all
\* the inputs once loading is over (also for a session payload).  When the
\* parseable files all hold documents that compile, the run does not end in
\* an exception, every loaded document gets its report, and the archive gets
\* one HTML entry per loaded document.
C13_Isolation ==
    /\ stage \in {"load", "stopped", "summary", "downloads", "rendered",
                  "buttons", "zipping", "zipped", "crashed"}
    /\ Loaded <= Len(IF use_session THEN session_payload ELSE uploaded_files)
    /\ stage # "load" =>
          Loaded = Len(IF use_session THEN session_payload ELSE uploaded_files)
    /\ ~use_session =>
          LET good == SelectSeq(Seen, Parses)
              bad == SelectSeq(Seen, Unparseable)
          IN  /\ Len(parsed) = Len(good)
              /\ \A i \in 1..Len(good) :
                    /\ parsed[i][1] = good[i].name
                    /\ stage \in {"load", "summary"} => parsed[i][2] = DocOf(good[i])
              /\ Len(errors) = Len(bad)
              /\ \A i \in 1..Len(bad) : StartsWith(errors[i], bad[i].name \o ": ")
              /\ (\A i \in 1..Len(uploaded_files) :
                     Parses(uploaded_files[i]) => Compiles(DocOf(uploaded_files[i])))
                 => /\ stage # "crashed"
                    /\ stage \in {"summary", "downloads"} => Len(listed) <= Len(parsed)
                    /\ stage \in {"downloads", "rendered", "buttons", "zipping", "zipped"}
                          => Len(listed) = Len(parsed)
                    /\ stage \in {"rendered", "buttons", "zipping", "zipped"} =>
                          /\ Len(SelectSeq(SubSeq(downloads, 1, 2 * Len(parsed)), IsReport))
                                = Len(parsed)
                          /\ \A i \in 1..Len(parsed) :
                                downloads[2 * i].content.tab_sections # << >>
                    /\ stage = "zipped" => Len(html_files) = Len(parsed)

\* three files of which the second cannot be parsed: two documents loaded,
\* one error for the second file, both reports rendered and archived
C13_Witness ==
    /\ ~use_session
    /\ Len(uploaded_files) = 3
    /\ Parses(uploaded_files[1])
    /\ Unparseable(uploaded_files[2])
    /\ Parses(uploaded_files[3])
    /\ stage = "zipped"
    /\ Len(parsed) = 2
    /\ parsed[1][1] = "first.json"
    /\ parsed[2][1] = "third.json"
    /\ errors = <<"second report.json: JSONDecodeError">>
    /\ Len(html_files) = 2

\* C14: an uploaded file whose text parses to something that is not an
\* object (a bare scalar, an array) is recorded as an error under its name
\* and is not loaded, and the run does not end in an exception when the
\* objects uploaded with it compile.
C14_NonKeyedRejected ==
    (~use_session /\ stage # "load") =>
        /\ \A i \in 1..Len(uploaded_files) :
              (Parses(uploaded_files[i]) /\ ~IsDict(DocOf(uploaded_files[i]))) =>
                  /\ \A j \in 1..Len(parsed) : parsed[j][1] # uploaded_files[i].name
                  /\ \E j \in 1..Len(errors) :
                        StartsWith(errors[j], uploaded_files[i].name \o ": ")
        /\ (\A i \in 1..Len(uploaded_files) :
               (Parses(uploaded_files[i]) /\ IsDict(DocOf(uploaded_files[i])))
                   => Compiles(DocOf(uploaded_files[i])))
           => stage # "crashed"

\* the document loaded from the upload that gave the i-th parsed document
LoadedDoc(i) ==
    DocOf(CHOOSE uf \in {uploaded_files[k] : k \in 1..Len(uploaded_files)} :
              uf.name = parsed[i][1])

IsJsonFile(b) == EndsWith(b.file, ".json")

\* C29: the JSON offered for a document, by its own download button and as
\* its entry of the JSON archive, is the serialization of the document as it
\* was loaded, in whatever order the report was generated and the document
\* serialized
C29_OriginalJson ==
    uploaded_files # << >> =>
        /\ \A k \in 1..Len(json_files) :
              json_files[k].content = json_dumps(LoadedDoc(k), 0)
        /\ \A k \in 1..Len(downloads) :
              IsJsonFile(downloads[k]) =>
                 \E i \in 1..Len(parsed) :
                    downloads[k].content = json_dumps(LoadedDoc(i), 0)

----------------------------------------------------------------------------
(* The report open in a browser: the tab strip (PageSpec) *)

\* a section or a button is named by its position in the page, so that two
\* elements of one id or one data-tab stay two elements

\* lines 930, 944: the classes in the markup; the overview button, the first
\* of the strip, and the overview section, the first of the sections, carry
\* 'active'
markup_active(page) ==
    [tabs |-> {i \in 1..Len(page.tab_sections) : page.tab_sections[i] = "tab-overview"},
     navs |-> {i \in 1..Len(page.nav_tabs) : page.nav_tabs[i] = "overview"}]

\* line 1157: document.getElementById('tab-'+name), the first element of the
\* id, or none
getElementById(page, id) ==
    LET found == {i \in 1..Len(page.tab_sections) : page.tab_sections[i] = id} IN
    IF found = {} THEN {}
    ELSE {CHOOSE i \in found : \A j \in found : i <= j}

\* showTab that leaves the buttons' classes of the previous tab alone
showTab_keeping_navs(name, page, active) ==
    [tabs |-> (active.tabs \ (1..Len(page.tab_sections)))
                  \cup getElementById(page, "tab-" \o name),
     navs |-> active.navs
                  \cup {i \in 1..Len(page.nav_tabs) : page.nav_tabs[i] = name}]

\* lines 1152-1161: showTab(name)
showTab(name, page, active) ==
    [tabs |-> (active.tabs \ (1..Len(page.tab_sections)))
                  \cup getElementById(page, "tab-" \o name),
     navs |-> (active.navs \ (1..Len(page.nav_tabs)))
                  \cup {i \in 1..Len(page.nav_tabs) : page.nav_tabs[i] = name}]

\* line 947: the score cards that call showTab, by the name they pass
score_card_tabs == {"flags"}

\* lines 754-756, 930-941, 947: the names the rendered controls pass to
\* showTab; a button passes its own data-tab
controls(page) ==
    {page.nav_tabs[i] : i \in 1..Len(page.nav_tabs)} \cup score_card_tabs

\* documents with each combination of the optional sections
PageDocs == SectionDocs

PageInit ==
    /\ input \in PageDocs
    /\ data = input
    /\ version = NotRun
    /\ out = NotRun
    /\ prev = NotRun
    /\ runs = 0
    /\ ScriptIdle
    /\ PageIdle

\* the report is generated and opened: the classes are those of the markup
LoadPage ==
    /\ out = NotRun
    /\ \E now \in Clock :
       \E g \in {generate_interactive_html(data, now)} :
          /\ out' = g.res
          /\ data' = g.data
          /\ active_tabs' = IF g.res.ok THEN markup_active(g.res.val).tabs ELSE {}
          /\ active_navs' = IF g.res.ok THEN markup_active(g.res.val).navs ELSE {}
    /\ prev' = out
    /\ runs' = runs + 1
    /\ last_tab' = ""
    /\ UNCHANGED <<input, version>>
    /\ UNCHANGED script_vars

\* a nav button or a score card of the open report is clicked
ShowTab ==
    /\ out # NotRun
    /\ out.ok
    /\ \E name \in controls(out.val) :
          LET shown == showTab(name, out.val,
                               [tabs |-> active_tabs, navs |-> active_navs]) IN
          /\ active_tabs' = shown.tabs
          /\ active_navs' = shown.navs
          /\ last_tab' = name
    /\ UNCHANGED compiler_vars
    /\ UNCHANGED script_vars

PageNext == LoadPage \/ ShowTab

PageSpec == PageInit /\ [][PageNext]_vars

----------------------------------------------------------------------------
(* Properties of the tab strip (PageSpec) *)

\* the tab on show: the overview until a control asks for another
TabOnShow == IF last_tab = "" THEN "overview" ELSE last_tab

HasSection(page, name) ==
    \E i \in 1..Len(page.tab_sections) : page.tab_sections[i] = "tab-" \o name

\* C30: in an open report exactly one section and exactly one button are
\* active, those of the overview at first and then those of the tab last
\* asked for by a rendered nav button or score card; every name a rendered
\* control can ask for has a rendered section 'tab-<name>', whichever
\* optional sections the document supplies
C30_TabSwitching ==
    Generated =>
        /\ Cardinality(active_tabs) = 1
        /\ \A i \in active_tabs : out.val.tab_sections[i] = "tab-" \o TabOnShow
        /\ Cardinality(active_navs) = 1
        /\ \A i \in active_navs : out.val.nav_tabs[i] = TabOnShow
        /\ \A name \in controls(out.val) : HasSection(out.val, name)

\* an optional tab is on show after another tab was, in a report with the
\* three optional sections
C30_Witness ==
    /\ Generated
    /\ Supplied(input, "counterparties")
    /\ Supplied(input, "recurring_payments")
    /\ Supplied(input, "non_bank_financing")
    /\ last_tab = "nonbank"
    /\ \E i \in active_tabs : out.val.tab_sections[i] = "tab-nonbank"
    /\ \E i \in active_navs : out.val.nav_tabs[i] = "nonbank"

====
